---- MODULE Spec2Model ----
(***************************************************************************)
(* A model of popcorn's asynchronous device-buffer substrate:              *)
(*   - the Vault (src/src/vault.rs), a future-driven mutex whose guard     *)
(*     can be carried across asynchronous steps;                           *)
(*   - the logical Buffer (src/src/buffer.rs), a Vault around a RawBuffer  *)
(*     with per-device copies and a latest_device marker;                  *)
(*   - the worker pool and its Events                                      *)
(*     (src/popcorn-core/src/platform/cpu/work.rs).                        *)
(***************************************************************************)
EXTENDS Integers, Sequences, FiniteSets, TLC

(***************************************************************************)
(* Bounds of the model.                                                    *)
(***************************************************************************)
\* number of tasks that use the vault on its own
NumTasks == 3
\* number of tasks that use the buffer
NumBufTasks == 2
\* longest waiting list that is explored
MaxWaiting == 3
\* number of try_lock() calls in the fair specification
MaxTry == 1
\* longest host vector, and largest buffer size in elements
MaxLen == 1
\* largest element of the host vectors that are passed to the buffer
MaxElem == 1
\* number of devices
NumDevices == 2
\* number of events that are created on the pool
MaxEvents == 2
\* number of callback(f) calls
MaxCallbacks == 2
\* number of complete(result) calls
MaxCompletes == 2
\* pool_size, the number of worker threads
NumWorkers == 2
\* number of WorkerPool handles the program holds at a time
MaxHandles == 2
\* number of spawn_box_fn calls the program makes itself
MaxSpawns == 2
\* number of pipelines that run the kernel
NumPipes == 2
\* number of threads of the program that call complete() and callback()
NumCallers == 1
\* number of complete() and callback() calls these threads make
MaxCalls == 2
\* the largest dimension of a shape passed to the allocating kernel
MaxDim == 3
\* number of executables of the graph a Context serves
NumNodes == 2
\* bound on the number of exec invocations made for one context
MaxExecs == 2
\* bound on the number of set_input calls
MaxInputs == 1

\* mem::size_of::<T>(), the bytes of one element
ElemBytes == 2
\* the bytes of one element of the kernel's buffers
WordBytes == 5

Tasks == 1..NumTasks
BufTasks == 1..NumBufTasks
NoTask == 0
\* the Arc<Inner> that Vault::new allocated
TheInner == 1
\* a task that holds no handle of the vault
NoHandle == 0
Devices == 1..NumDevices
NoDevice == 0
\* the device of the backend that creates the buffer
HomeDevice == 1
Workers == 1..NumWorkers
\* work::Result: Ok(()) or Err(Error::Custom(..))
Results == {"Ok", "Err"}
\* the values of an element of type T
Elems == 0..((2 ^ ElemBytes) - 1)

VARIABLES
  \* ---- Vault: InnerLock (vault.rs:48-54)
  locked,         \* InnerLock.locked
  waiting,        \* InnerLock.waiting, a Vec<Task>; push/pop at the tail
  \* ---- the tasks that use the vault
  pc,             \* per task: "idle", "acquire" (holds an unpolled
                  \* VaultAcquire), "parked" (polled, NotReady), "woken"
                  \* (unparked, not yet polled again), "holding" (owns a
                  \* VaultAcquired), "inflight" (the guard is owned by a
                  \* buffer future that has not resolved)
  lastAcq,        \* the last poll of a VaultAcquire or call of try_lock:
                  \* whether a guard existed, the locked flag it found,
                  \* and what it returned
  tries,          \* number of try_lock() calls made
  handle,         \* per task: the Arc<Inner> its Vault handle points to
  \* ---- Buffer: the RawBuffer inside the vault (buffer.rs:65-71)
  size,           \* RawBuffer.size, in elements
  copies,         \* RawBuffer.copies: device -> memory (a byte sequence)
  latest_device,  \* RawBuffer.latest_device
  bop,            \* the buffer operation last called on a LockedBuffer:
                  \* its future while in flight, its outcome once resolved
  cancelled,      \* a buffer future was dropped before it resolved
  \* ---- WorkerPool and its Events (work.rs:41-73)
  current_event_id, \* WorkerPoolInner.current_event_id
  completed,      \* per created event: EventInner.completed
  callbacks,      \* per created event: EventInner.callbacks, a Vec<WorkFn>
  queue,          \* WorkerPoolInner.queue, the FIFO of WorkItems
  running,        \* per worker thread: the WorkItem it popped, if any
  executed,       \* the thunks that were invoked: f, its argument, worker
  registered,     \* the callback(f) calls made: f, event, completed flag
  completeLog,    \* the complete(result) calls made and what they returned
  created,        \* the create_event() calls made: the id returned and the
                  \* EventInner built
  pool_handles,   \* number of WorkerPool handles the program holds
  live,           \* the events whose EventInner exists; each owns a
                  \* WorkerPool handle
  exited,         \* the worker threads that left their loop
  spawns,         \* number of spawn_box_fn calls the program made itself
  spawned,        \* the result passed to each of these calls
  \* ---- the pipelines that run bcast_dot, and their buffers
  kbufs,          \* per buffer: its vault (locked, waiting) and the
                  \* RawBuffer inside
  kshare,         \* per pipeline: the arguments for which it passes the
                  \* buffer of the first pipeline
  kpc,            \* per pipeline: "acquire" (polls the next lock()
                  \* future), "parked", "locked" (holds the six guards),
                  \* "queued" (bcast_dot called, thunk on the pool),
                  \* "computing" (a pool thread runs the thunk),
                  \* "resolved", "failed", "done"
  kheld,          \* per pipeline: the arguments whose guard it owns
  kalloc,         \* per pipeline: it calls the allocating bcast_dot
                  \* (core_ops/dot.rs), which makes the output buffers
  kout,           \* per pipeline: what the future of bcast_dot resolved to
  \* ---- a Context and the executables it serves (popcorn-butter)
  nodes,          \* per executable (its uid): what its exec does
  cache,          \* Context.cache: uid -> the Vec of boxed outputs
  execs,          \* per executable: number of times its exec was invoked
  ninputs,        \* number of set_input calls made
  bound,          \* per uid: the buffer future of the last set_input
                  \* call made for it, if any
  lastExec,       \* the last Socket::exec call and what it returned
  \* ---- the spin locks (spin::Mutex) of the events and of the vault
  spin            \* per thread: the spin locks it holds, the one it spins
                  \* on, and the call that it makes under the lock

vaultVars == <<locked, waiting, pc, lastAcq, tries, handle>>

bufferVars == <<size, copies, latest_device, bop, cancelled>>

eventVars == <<current_event_id, completed, callbacks, queue, running,
               executed, registered, completeLog, created, pool_handles,
               live, exited, spawns,
                 spawned>>

kernelVars == <<kbufs, kshare, kpc, kheld, kalloc, kout>>

contextVars == <<nodes, cache, execs, ninputs, bound, lastExec>>

\* the Arc<WorkerPoolInner> handles and the threads' fate
poolVars == <<pool_handles, live, exited, spawns,
                 spawned>>

\* everything but the vault and its tasks
otherVars == <<bufferVars, eventVars, kernelVars, contextVars, spin>>

vars == <<locked, waiting, pc, lastAcq, tries, handle,
          size, copies, latest_device, bop, cancelled,
          current_event_id, completed, callbacks, queue, running,
          executed, registered, completeLog, created, pool_handles,
          live, exited, spawns, spawned,
          kbufs, kshare, kpc, kheld, kalloc, kout,
          nodes, cache, execs, ninputs, bound, lastExec,
          spin>>

(***************************************************************************)
(* Vault (src/src/vault.rs)                                                *)
(***************************************************************************)

\* the tasks that own a VaultAcquired (directly or inside a buffer future)
Guards == {t \in Tasks : pc[t] \in {"holding", "inflight"}}

\* the tasks whose VaultAcquire future has been polled and is still pending
Pending == {t \in Tasks : pc[t] \in {"parked", "woken"}}

\* Vault::new: unlocked, nobody waiting
VaultNew == [locked |-> FALSE, waiting |-> <<>>]

\* task.unpark(): a parked task is scheduled to poll its future again; for
\* a task that is not parked on the vault the notification has no effect
Unpark(p, t) ==
  IF t \in DOMAIN p /\ p[t] = "parked" THEN [p EXCEPT ![t] = "woken"] ELSE p

\* a poll that gives up on a locked vault as try_lock does
PollVaultBusy(lk, w, t) ==
  IF ~lk
    THEN [locked |-> TRUE, waiting |-> w, ret |-> "Ready"]
    ELSE [locked |-> lk, waiting |-> w, ret |-> "Err"]

\* a poll that hands out the guard without looking at the flag
PollVaultUnchecked(lk, w, t) ==
  [locked |-> TRUE, waiting |-> w, ret |-> "Ready"]

\* VaultAcquire::poll, the outcome under the spin lock: the new flag, the
\* new waiting list and the value returned
PollVault(lk, w, t) ==
  IF ~lk
    THEN [locked |-> TRUE, waiting |-> w, ret |-> "Ready"]
    ELSE [locked |-> lk, waiting |-> Append(w, t), ret |-> "NotReady"]

\* a try_lock that takes the vault whatever the flag says
TryLockVaultForce(lk) == [locked |-> TRUE, ret |-> "Ok"]

\* Vault::try_lock, the outcome under the spin lock
TryLockVault(lk) ==
  IF ~lk
    THEN [locked |-> TRUE, ret |-> "Ok"]
    ELSE [locked |-> lk, ret |-> "Err"]

\* a drop that wakes the waiter that has been parked longest
DropVaultHead(w) ==
  IF w /= <<>>
    THEN [locked |-> FALSE, waiting |-> Tail(w), wake |-> Head(w)]
    ELSE [locked |-> FALSE, waiting |-> w, wake |-> NoTask]

\* VaultAcquired::drop, the outcome under the spin lock: the flag is
\* cleared and the tail of the waiting list is popped and unparked
DropVault(w) ==
  IF w /= <<>>
    THEN [locked |-> FALSE, waiting |-> SubSeq(w, 1, Len(w) - 1),
          wake |-> w[Len(w)]]
    ELSE [locked |-> FALSE, waiting |-> w, wake |-> NoTask]

\* the guard of task t is dropped and t continues as `next`
ReleaseGuard(t, next) ==
  LET d == DropVault(waiting) IN
    /\ locked' = d.locked
    /\ waiting' = d.waiting
    /\ pc' = Unpark([pc EXCEPT ![t] = next], d.wake)

\* a clone that allocates an Inner of its own
VaultCloneFresh(h) == h + 1

\* Vault::clone, and Buffer::clone that derives from it: the new handle
\* points to the Arc<Inner> of the handle it is cloned from
VaultClone(h) == h

\* a task that holds no handle is given a clone of the handle of task u
Clone(t, u) ==
  /\ handle[t] = NoHandle
  /\ handle[u] /= NoHandle
  /\ handle' = [handle EXCEPT ![t] = VaultClone(handle[u])]
  /\ UNCHANGED <<locked, waiting, pc, lastAcq, tries>>
  /\ UNCHANGED otherVars

\* a lock() that takes the vault when it creates the future
LockEager(t) ==
  /\ pc[t] = "idle"
  /\ handle[t] = TheInner
  /\ pc' = [pc EXCEPT ![t] = "acquire"]
  /\ locked' = TRUE
  /\ UNCHANGED <<waiting, lastAcq, tries, handle>>
  /\ UNCHANGED otherVars

\* Vault::lock: creates the VaultAcquire future, touches nothing else
Lock(t) ==
  /\ pc[t] = "idle"
  /\ handle[t] = TheInner
  /\ pc' = [pc EXCEPT ![t] = "acquire"]
  /\ UNCHANGED <<locked, waiting, lastAcq, tries, handle>>
  /\ UNCHANGED otherVars

\* one poll of the VaultAcquire future of task t
PollStep(t) ==
  LET r == PollVault(locked, waiting, t) IN
    /\ locked' = r.locked
    /\ waiting' = r.waiting
    /\ pc' = [pc EXCEPT ![t] = IF r.ret = "Ready" THEN "holding" ELSE "parked"]
    /\ lastAcq' = [op |-> "poll", guard |-> Guards /= {},
                   unpolled |-> \E u \in Tasks \ {t} : pc[u] = "acquire",
                   locked |-> locked, ret |-> r.ret]
    /\ UNCHANGED <<tries, handle>>
    /\ UNCHANGED otherVars

\* the first poll of a new future, or the poll after an unpark
Poll(t) ==
  /\ pc[t] \in {"acquire", "woken"}
  /\ locked => Len(waiting) < MaxWaiting
  /\ PollStep(t)

\* a poll of a future that is parked and was not unparked: the task was
\* polled for another reason (a sibling future of a join, a spurious wake)
Repoll(t) ==
  /\ pc[t] = "parked"
  /\ locked => Len(waiting) < MaxWaiting
  /\ PollStep(t)

\* one call of Vault::try_lock by task t
TryLockStep(t) ==
  LET r == TryLockVault(locked) IN
    /\ locked' = r.locked
    /\ pc' = [pc EXCEPT ![t] = IF r.ret = "Ok" THEN "holding" ELSE "idle"]
    /\ lastAcq' = [op |-> "try_lock", guard |-> Guards /= {},
                   unpolled |-> \E u \in Tasks \ {t} : pc[u] = "acquire",
                   locked |-> locked, ret |-> r.ret]
    /\ UNCHANGED <<waiting, handle>>
    /\ UNCHANGED otherVars

\* Vault::try_lock
TryLock(t) ==
  /\ pc[t] = "idle"
  /\ handle[t] = TheInner
  /\ TryLockStep(t)
  /\ tries' = tries

\* Vault::try_lock, where only MaxTry calls are ever made
TryLockFinite(t) ==
  /\ pc[t] = "idle"
  /\ handle[t] = TheInner
  /\ tries < MaxTry
  /\ TryLockStep(t)
  /\ tries' = tries + 1

\* VaultAcquired::drop
DropGuard(t) ==
  /\ pc[t] = "holding"
  /\ ReleaseGuard(t, "idle")
  /\ UNCHANGED <<lastAcq, tries, handle>>
  /\ UNCHANGED otherVars

\* a VaultAcquire future is dropped before it resolved; the Task handles it
\* pushed stay in the waiting list
DropAcquire(t) ==
  /\ pc[t] \in {"acquire", "parked", "woken"}
  /\ pc' = [pc EXCEPT ![t] = "idle"]
  /\ UNCHANGED <<locked, waiting, lastAcq, tries, handle>>
  /\ UNCHANGED otherVars

\* a task that holds a guard drops its Vault handle; the guard's own Arc
\* keeps the Inner alive
DropHandle(t) ==
  /\ pc[t] = "holding"
  /\ handle[t] = TheInner
  /\ handle' = [handle EXCEPT ![t] = NoHandle]
  /\ UNCHANGED <<locked, waiting, pc, lastAcq, tries>>
  /\ UNCHANGED otherVars

\* the handle that From<VaultAcquired<T>> builds from a guard of the
\* Inner: va.inner.clone()
VaultFromAcquired(inner) == inner

\* a conversion that forgets the guard instead of dropping it
IntoVaultLeak(t) ==
  /\ pc[t] = "holding"
  /\ pc' = [pc EXCEPT ![t] = "idle"]
  /\ handle' = [handle EXCEPT ![t] = VaultFromAcquired(TheInner)]
  /\ lastAcq' = [op |-> "into", guard |-> Guards /= {},
                 unpolled |-> \E u \in Tasks \ {t} : pc[u] = "acquire",
                 locked |-> locked, ret |-> "Vault"]
  /\ UNCHANGED <<locked, waiting, tries>>
  /\ UNCHANGED otherVars

\* From<VaultAcquired<T>> for Vault<T>, which From<LockedBuffer<T>> for
\* Buffer<T> calls: the handle is built, then the guard, taken by value,
\* goes out of scope and VaultAcquired::drop runs
IntoVault(t) ==
  /\ pc[t] = "holding"
  /\ handle' = [handle EXCEPT ![t] = VaultFromAcquired(TheInner)]
  /\ ReleaseGuard(t, "idle")
  /\ lastAcq' = [op |-> "into", guard |-> Guards /= {},
                 unpolled |-> \E u \in Tasks \ {t} : pc[u] = "acquire",
                 locked |-> locked, ret |-> "Vault"]
  /\ UNCHANGED tries
  /\ UNCHANGED otherVars

\* Vault::new, and tasks that have not used the vault yet
VaultInitState ==
  /\ locked = VaultNew.locked
  /\ waiting = VaultNew.waiting
  /\ pc = [t \in Tasks |-> "idle"]
  /\ lastAcq = [op |-> "none", guard |-> FALSE, unpolled |-> FALSE,
                locked |-> FALSE, ret |-> "none"]
  /\ tries = 0

\* every task was given a handle of the vault
VaultInit ==
  /\ VaultInitState
  /\ handle = [t \in Tasks |-> TheInner]

\* Buffer::try_lock: the vault's result, mapped by map and map_err
BufferTryLock(ret) == IF ret = "Ok" THEN "LockedBuffer" ELSE "InvalidLock"

\* Buffer::lock: what a poll of the vault's future becomes after map and
\* map_err
BufferLock(ret) ==
  IF ret = "Ready" THEN "LockedBuffer"
  ELSE IF ret = "NotReady" THEN "NotReady"
  ELSE "InvalidLock"

(***************************************************************************)
(* Native memory and the native device's host copies.  A memory is a byte  *)
(* buffer; an element of type T occupies ElemBytes bytes, least            *)
(* significant first (bytes are shown in base 2).                          *)
(***************************************************************************)

\* the set of host vectors that are passed to the buffer
Vecs == UNION {[1..n -> {e \in Elems : e <= MaxElem}] : n \in 0..MaxLen}

\* the bytes of one element
EncodeElem(e) == [j \in 1..ElemBytes |-> (e \div (2 ^ (j - 1))) % 2]

\* the element stored in bytes from+1 .. from+j of a memory
RECURSIVE DecodeElem(_, _, _)
DecodeElem(mem, from, j) ==
  IF j = 0 THEN 0
  ELSE mem[from + j] * (2 ^ (j - 1)) + DecodeElem(mem, from, j - 1)

\* the bytes of a host vector, as Memory::copy_from lays them out
ToBytes(vec) ==
  [k \in 1..(Len(vec) * ElemBytes) |->
     EncodeElem(vec[((k - 1) \div ElemBytes) + 1])[((k - 1) % ElemBytes) + 1]]

\* the host vector read out of a memory
FromBytes(mem) ==
  [i \in 1..(Len(mem) \div ElemBytes) |->
     DecodeElem(mem, (i - 1) * ElemBytes, ElemBytes)]

\* Device::alloc_memory(n): a memory of n bytes of unspecified contents
AllocMemory(n) == [1..n -> {0, 1}]

\* Memory::copy_from: fails unless the vector fills the memory exactly
CopyFrom(mem, vec) ==
  IF Len(vec) * ElemBytes = Len(mem)
    THEN [ok |-> TRUE, mem |-> ToBytes(vec)]
    ELSE [ok |-> FALSE, mem |-> mem]

\* native Device::sync_from_vec(mem, vec): the future's outcome
DeviceSyncFromVec(mem, vec) == CopyFrom(mem, vec)

\* native Device::sync_to_vec(mem): the future's outcome
DeviceSyncToVec(mem) ==
  IF Len(mem) % ElemBytes = 0
    THEN [ok |-> TRUE, mem |-> mem, vec |-> FromBytes(mem)]
    ELSE [ok |-> FALSE, mem |-> mem, vec |-> <<>>]

(***************************************************************************)
(* Buffer (src/src/buffer.rs)                                              *)
(***************************************************************************)

\* HashMap::remove
RemoveCopy(c, dev) == [d \in (DOMAIN c) \ {dev} |-> c[d]]

\* HashMap::insert
InsertCopy(c, dev, mem) ==
  [d \in (DOMAIN c) \cup {dev} |-> IF d = dev THEN mem ELSE c[d]]

\* RawBuffer::new with the memory that alloc_on_device returned
RawBufferNew(dev, n, mem) ==
  [size |-> n, copies |-> InsertCopy(<<>>, dev, mem), latest_device |-> dev]

\* RawBuffer::from_vec_native with the memory that alloc_memory returned
RawBufferFromVec(dev, vec, mem) ==
  [size |-> Len(vec), copies |-> InsertCopy(<<>>, dev, CopyFrom(mem, vec).mem),
   latest_device |-> dev]

\* the first two statements of sync_from_vec and of sync_to_vec: the copy
\* on latest_device is taken out of copies
TakeLatest(c, latest) ==
  [dev |-> latest,
   has |-> latest \in DOMAIN c,
   mem |-> IF latest \in DOMAIN c THEN c[latest] ELSE <<>>,
   copies |-> RemoveCopy(c, latest)]

\* a sync_from_vec whose closure does not put the memory back
SyncFromVecLost(c, new_dev, mem) == c

\* the closure of sync_from_vec: the memory the device returned is
\* inserted under the device it was taken from
SyncFromVecDone(c, new_dev, mem) == InsertCopy(c, new_dev, mem)

\* a sync_to_vec whose closure does not put the memory back
SyncToVecLost(c, new_dev, mem) == c

\* the closure of sync_to_vec: the memory is inserted under the device it
\* was taken from
SyncToVecDone(c, new_dev, mem) == InsertCopy(c, new_dev, mem)

\* a sync that always materializes the target's copy from the latest one
SyncRawMaterialize(c, latest, bdev) ==
  [copies |-> IF latest \in DOMAIN c THEN InsertCopy(c, bdev, c[latest])
              ELSE c,
   latest_device |-> bdev, allocs |-> 1, transfers |-> 1]

\* LockedBuffer::sync: what it does to the raw buffer for target bdev, and
\* the allocations and transfers it performs
SyncRaw(c, latest, bdev) ==
  [copies |-> c, latest_device |-> latest, allocs |-> 0, transfers |-> 0]

NoWritten == [set |-> FALSE, vec |-> <<>>, by |-> NoTask]

\* the record of a buffer operation that is called now: what it is, the
\* raw buffer it finds and, for sync_to_vec, the vector that the operation
\* before it wrote if that was a successful sync_from_vec
BufOp(name, phase, t, ok, err, dev, mem, vec) ==
  [name |-> name, phase |-> phase, task |-> t, ok |-> ok, err |-> err,
   dev |-> dev, mem |-> mem, vec |-> vec,
   beforeCopies |-> copies, beforeLatest |-> latest_device,
   beforeSize |-> size,
   written |-> IF /\ name = "sync_to_vec"
                  /\ bop.name = "sync_from_vec"
                  /\ bop.phase = "resolved" /\ bop.ok
                 THEN [set |-> TRUE, vec |-> bop.vec, by |-> bop.task]
                 ELSE NoWritten,
   reps |-> 0, allocs |-> 0, transfers |-> 0]

\* no buffer operation was called yet
NoBufOp ==
  [name |-> "none", phase |-> "none", task |-> NoTask, ok |-> FALSE,
   err |-> "none", dev |-> NoDevice, mem |-> <<>>, vec |-> <<>>,
   beforeCopies |-> copies, beforeLatest |-> latest_device,
   beforeSize |-> size,
   written |-> NoWritten, reps |-> 0, allocs |-> 0, transfers |-> 0]

\* LockedBuffer::sync_from_vec, the call: the copy is taken out; without a
\* copy the guard is dropped and the future is an immediate InvalidDevice
SyncFromVec(t, v) ==
  /\ pc[t] = "holding"
  /\ LET k == TakeLatest(copies, latest_device) IN
       /\ copies' = k.copies
       /\ IF k.has
            THEN /\ pc' = [pc EXCEPT ![t] = "inflight"]
                 /\ bop' = BufOp("sync_from_vec", "inflight", t, FALSE, "none",
                                 k.dev, k.mem, v)
                 /\ UNCHANGED <<locked, waiting>>
            ELSE /\ ReleaseGuard(t, "idle")
                 /\ bop' = BufOp("sync_from_vec", "resolved", t, FALSE,
                                 "InvalidDevice", k.dev, <<>>, v)
  /\ UNCHANGED <<size, latest_device, cancelled, lastAcq, tries, handle>>
  /\ UNCHANGED <<eventVars, kernelVars, contextVars, spin>>

\* the future of sync_from_vec resolves: on success the closure reinserts
\* the memory and yields the LockedBuffer; on failure the closure, and the
\* guard it owns, is dropped
ResolveSyncFromVec(t) ==
  /\ bop.phase = "inflight" /\ bop.name = "sync_from_vec" /\ bop.task = t
  /\ LET r == DeviceSyncFromVec(bop.mem, bop.vec) IN
       IF r.ok
         THEN /\ copies' = SyncFromVecDone(copies, bop.dev, r.mem)
              /\ pc' = [pc EXCEPT ![t] = "holding"]
              /\ bop' = [bop EXCEPT !.phase = "resolved", !.ok = TRUE,
                                    !.mem = <<>>]
              /\ UNCHANGED <<locked, waiting>>
         ELSE /\ ReleaseGuard(t, "idle")
              /\ bop' = [bop EXCEPT !.phase = "resolved", !.err = "Native",
                                    !.mem = <<>>]
              /\ UNCHANGED copies
  /\ UNCHANGED <<size, latest_device, cancelled, lastAcq, tries, handle>>
  /\ UNCHANGED <<eventVars, kernelVars, contextVars, spin>>

\* LockedBuffer::sync_to_vec, the call
SyncToVec(t) ==
  /\ pc[t] = "holding"
  /\ LET k == TakeLatest(copies, latest_device) IN
       /\ copies' = k.copies
       /\ IF k.has
            THEN /\ pc' = [pc EXCEPT ![t] = "inflight"]
                 /\ bop' = BufOp("sync_to_vec", "inflight", t, FALSE, "none",
                                 k.dev, k.mem, <<>>)
                 /\ UNCHANGED <<locked, waiting>>
            ELSE /\ ReleaseGuard(t, "idle")
                 /\ bop' = BufOp("sync_to_vec", "resolved", t, FALSE,
                                 "InvalidDevice", k.dev, <<>>, <<>>)
  /\ UNCHANGED <<size, latest_device, cancelled, lastAcq, tries, handle>>
  /\ UNCHANGED <<eventVars, kernelVars, contextVars, spin>>

\* a sync_to_vec whose future resolves with the guard still held
ResolveSyncToVecKeep(t) ==
  /\ bop.phase = "inflight" /\ bop.name = "sync_to_vec" /\ bop.task = t
  /\ LET r == DeviceSyncToVec(bop.mem) IN
       /\ copies' = IF r.ok THEN SyncToVecDone(copies, bop.dev, r.mem)
                    ELSE copies
       /\ bop' = [bop EXCEPT !.phase = "resolved", !.ok = r.ok,
                             !.mem = <<>>, !.vec = r.vec]
  /\ pc' = [pc EXCEPT ![t] = "holding"]
  /\ UNCHANGED <<locked, waiting>>
  /\ UNCHANGED <<size, latest_device, cancelled, lastAcq, tries, handle>>
  /\ UNCHANGED <<eventVars, kernelVars, contextVars, spin>>

\* the future of sync_to_vec resolves: on success the closure reinserts the
\* memory and yields the vector; the closure and its guard are dropped
ResolveSyncToVec(t) ==
  /\ bop.phase = "inflight" /\ bop.name = "sync_to_vec" /\ bop.task = t
  /\ LET r == DeviceSyncToVec(bop.mem) IN
       IF r.ok
         THEN /\ copies' = SyncToVecDone(copies, bop.dev, r.mem)
              /\ bop' = [bop EXCEPT !.phase = "resolved", !.ok = TRUE,
                                    !.mem = <<>>, !.vec = r.vec]
         ELSE /\ bop' = [bop EXCEPT !.phase = "resolved", !.err = "Native",
                                    !.mem = <<>>]
              /\ UNCHANGED copies
  /\ ReleaseGuard(t, "idle")
  /\ UNCHANGED <<size, latest_device, cancelled, lastAcq, tries, handle>>
  /\ UNCHANGED <<eventVars, kernelVars, contextVars, spin>>

\* the future of sync_from_vec or sync_to_vec is dropped before it
\* resolved: its closure and the guard it owns are dropped
DropFuture(t) ==
  /\ bop.phase = "inflight" /\ bop.task = t
  /\ ReleaseGuard(t, "idle")
  /\ bop' = [bop EXCEPT !.phase = "dropped", !.mem = <<>>]
  /\ cancelled' = TRUE
  /\ UNCHANGED <<size, copies, latest_device, lastAcq, tries, handle>>
  /\ UNCHANGED <<eventVars, kernelVars, contextVars, spin>>

\* LockedBuffer::sync(dev): the future is ready at once and yields the
\* LockedBuffer
Sync(t, d) ==
  /\ pc[t] = "holding"
  /\ LET r == SyncRaw(copies, latest_device, d) IN
       /\ copies' = r.copies
       /\ latest_device' = r.latest_device
       /\ bop' = [BufOp("sync", "resolved", t, TRUE, "none", d, <<>>, <<>>)
                    EXCEPT !.reps = IF bop.name = "sync" /\ bop.dev = d
                                      THEN 2 ELSE 1,
                           !.allocs = r.allocs,
                           !.transfers = r.transfers]
  /\ UNCHANGED <<size, cancelled>>
  /\ UNCHANGED <<vaultVars, eventVars, kernelVars, contextVars, spin>>

\* a native_memory that allocates the copy it does not find
NativeMemoryAlloc(c, dev) ==
  [ok |-> TRUE, err |-> "none",
   mem |-> IF dev \in DOMAIN c THEN c[dev] ELSE <<>>,
   copies |-> IF dev \in DOMAIN c THEN c ELSE InsertCopy(c, dev, <<>>)]

\* RawBuffer::native_memory(dev): the borrow it returns, and copies after
\* the call
NativeMemory(c, dev) ==
  IF dev \in DOMAIN c
    THEN [ok |-> TRUE, err |-> "none", mem |-> c[dev], copies |-> c]
    ELSE [ok |-> FALSE, err |-> "InvalidDevice", mem |-> <<>>, copies |-> c]

\* RawBuffer::native_memory_mut(dev): as native_memory, with get_mut
NativeMemoryMut(c, dev) ==
  IF dev \in DOMAIN c
    THEN [ok |-> TRUE, err |-> "none", mem |-> c[dev], copies |-> c]
    ELSE [ok |-> FALSE, err |-> "InvalidDevice", mem |-> <<>>, copies |-> c]

\* a call of native_memory(d) or native_memory_mut(d) on a LockedBuffer
NativeMemoryCall(t, d, mut) ==
  /\ pc[t] = "holding"
  /\ LET r == IF mut THEN NativeMemoryMut(copies, d)
              ELSE NativeMemory(copies, d) IN
       /\ copies' = r.copies
       /\ bop' = BufOp(IF mut THEN "native_memory_mut" ELSE "native_memory",
                       "resolved", t, r.ok, r.err, d, r.mem, <<>>)
  /\ UNCHANGED <<size, latest_device, cancelled>>
  /\ UNCHANGED <<vaultVars, eventVars, kernelVars, contextVars, spin>>

\* the raw buffers that RawBuffer::new(dev, n) can return
NewRawBuffers(dev) ==
  UNION {{RawBufferNew(dev, n, mem) : mem \in AllocMemory(n * ElemBytes)} :
           n \in 0..MaxLen}

\* the raw buffers that RawBuffer::from_vec_native(dev, vec) can return
FromVecRawBuffers(dev) ==
  UNION {{RawBufferFromVec(dev, vec, mem) :
            mem \in AllocMemory(Len(vec) * ElemBytes)} : vec \in Vecs}

\* Buffer::new(dev, n) or Buffer::from_vec_native(dev, vec), on the
\* backend's device
BufferInit ==
  /\ \E raw \in NewRawBuffers(HomeDevice) \cup FromVecRawBuffers(HomeDevice) :
       /\ size = raw.size
       /\ copies = raw.copies
       /\ latest_device = raw.latest_device
  /\ bop = NoBufOp
  /\ cancelled = FALSE


(***************************************************************************)
(* Worker pool and events (src/popcorn-core/src/platform/cpu/work.rs)      *)
(***************************************************************************)

\* the events that create_event has returned
Events == 0..(current_event_id - 1)

\* a work item that forgets the result it was given
RunOk(f, r) == [f |-> f, r |-> "Ok"]

\* WorkItem::Run(f, r)
Run(f, r) == [f |-> f, r |-> r]

\* no WorkItem
NoItem == [f |-> 0, r |-> "none"]

RECURSIVE SpawnAllReversed(_, _)
\* a drain that pushes the callback registered last first
SpawnAllReversed(fs, r) ==
  IF fs = <<>> THEN <<>>
  ELSE SpawnAllReversed(Tail(fs), r) \o <<Run(Head(fs), r)>>

\* WorkerPool::spawn_box_fn over a list of thunks: one Run item each, in
\* the order of the list
RECURSIVE SpawnAll(_, _)
SpawnAll(fs, r) ==
  IF fs = <<>> THEN <<>>
  ELSE <<Run(Head(fs), r)>> \o SpawnAll(Tail(fs), r)

\* a callback_box that stores the thunk whatever the completed flag says
CallbackBoxStore(done, cbs, f) ==
  [callbacks |-> Append(cbs, f), spawn |-> <<>>]

\* Event::callback_box under the event's spin lock: the new callback list
\* and the items pushed on the pool's queue
CallbackBox(done, cbs, f) ==
  IF done
    THEN [callbacks |-> cbs, spawn |-> <<Run(f, "Ok")>>]
    ELSE [callbacks |-> Append(cbs, f), spawn |-> <<>>]

\* a complete that does not look at the completed flag
EventCompleteAgain(done, cbs, result) ==
  [completed |-> TRUE, callbacks |-> <<>>,
   spawn |-> SpawnAll(cbs, result), ret |-> TRUE]

\* Event::complete under the event's spin lock: the new flag, the new
\* callback list, the items pushed on the pool's queue, the value returned
EventComplete(done, cbs, result) ==
  IF done
    THEN [completed |-> done, callbacks |-> cbs, spawn |-> <<>>,
          ret |-> FALSE]
    ELSE [completed |-> TRUE, callbacks |-> <<>>,
          spawn |-> SpawnAll(cbs, result), ret |-> TRUE]

\* WorkItem::Close
Close == [f |-> 0, r |-> "Close"]

\* a fetch_add that does not store the sum
FetchAddStale(c) == [ret |-> c, new |-> c]

\* AtomicUsize::fetch_add(1, SeqCst): the value returned and the value
\* stored, in one atomic step
FetchAdd(c) == [ret |-> c, new |-> c + 1]

\* the EventInner that create_event builds
NewEventInner(id) == [id |-> id, completed |-> FALSE, callbacks |-> <<>>]

\* the strong count of the Arc<WorkerPoolInner>
StrongCount(h, lv) == h + Cardinality(lv)

\* a drop that sends one Close for the whole pool
PoolDropOne(n) == <<Close>>

\* Drop for WorkerPoolInner: one Close per worker thread
PoolDrop(n) == [i \in 1..n |-> Close]

\* the items pushed on the queue when the program is left with h handles
\* and the events lv: Drop for WorkerPoolInner runs when the last is gone
DropLast(h, lv) ==
  IF StrongCount(h, lv) = 0 THEN PoolDrop(NumWorkers) ELSE <<>>

\* WorkerPool::create_event: fetch_add on the counter, a fresh EventInner
\* that owns a clone of the pool's handle
CreateEvent ==
  /\ current_event_id < MaxEvents
  /\ pool_handles >= 1
  /\ LET fa == FetchAdd(current_event_id)
         id == fa.ret
         ev == NewEventInner(id) IN
       /\ current_event_id' = fa.new
       /\ completed' = [e \in Events \cup {id} |->
                          IF e = id THEN ev.completed ELSE completed[e]]
       /\ callbacks' = [e \in Events \cup {id} |->
                          IF e = id THEN ev.callbacks ELSE callbacks[e]]
       /\ created' = Append(created, ev)
       /\ live' = live \cup {id}
  /\ UNCHANGED <<queue, running, executed, registered, completeLog>>
  /\ UNCHANGED <<pool_handles, exited, spawns,
                 spawned>>
  /\ UNCHANGED <<vaultVars, bufferVars, kernelVars, contextVars, spin>>

\* Event::callback(f) on event e, f a thunk that was not registered before
Callback(e) ==
  /\ e \in Events
  /\ e \in live
  /\ Len(registered) < MaxCallbacks
  /\ LET f == Len(registered) + 1
         r == CallbackBox(completed[e], callbacks[e], f) IN
       /\ callbacks' = [callbacks EXCEPT ![e] = r.callbacks]
       /\ queue' = queue \o r.spawn
       /\ registered' = Append(registered,
                               [f |-> f, event |-> e, late |-> completed[e]])
  /\ UNCHANGED <<current_event_id, completed, running, executed, completeLog>>
  /\ UNCHANGED <<created, poolVars>>
  /\ UNCHANGED <<vaultVars, bufferVars, kernelVars, contextVars, spin>>

\* Event::complete(result) on event e
Complete(e, result) ==
  /\ e \in Events
  /\ e \in live
  /\ Len(completeLog) < MaxCompletes
  /\ LET r == EventComplete(completed[e], callbacks[e], result) IN
       /\ completed' = [completed EXCEPT ![e] = r.completed]
       /\ callbacks' = [callbacks EXCEPT ![e] = r.callbacks]
       /\ queue' = queue \o r.spawn
       /\ completeLog' = Append(completeLog,
                                [event |-> e, result |-> result,
                                 ret |-> r.ret, spawned |-> Len(r.spawn),
                                 found |-> completed[e]])
  /\ UNCHANGED <<current_event_id, running, executed, registered>>
  /\ UNCHANGED <<created, poolVars>>
  /\ UNCHANGED <<vaultVars, bufferVars, kernelVars, contextVars, spin>>

\* a worker thread pops the head of the queue: a Run item is taken to be
\* invoked, a Close makes the thread leave its loop
WorkerPop(w) ==
  /\ w \notin exited
  /\ running[w] = NoItem
  /\ queue /= <<>>
  /\ queue' = Tail(queue)
  /\ IF Head(queue) = Close
       THEN exited' = exited \cup {w} /\ UNCHANGED running
       ELSE running' = [running EXCEPT ![w] = Head(queue)]
            /\ UNCHANGED exited
  /\ UNCHANGED <<current_event_id, completed, callbacks, executed,
                 registered, completeLog>>
  /\ UNCHANGED <<created, pool_handles, live, spawns,
                 spawned>>
  /\ UNCHANGED <<vaultVars, bufferVars, kernelVars, contextVars, spin>>

\* a worker thread invokes the thunk of the Run item it popped: f(r)
WorkerRun(w) ==
  /\ running[w] /= NoItem
  /\ executed' = Append(executed,
                        [f |-> running[w].f, r |-> running[w].r, worker |-> w])
  /\ running' = [running EXCEPT ![w] = NoItem]
  /\ UNCHANGED <<current_event_id, completed, callbacks, queue,
                 registered, completeLog>>
  /\ UNCHANGED <<created, poolVars>>
  /\ UNCHANGED <<vaultVars, bufferVars, kernelVars, contextVars, spin>>

\* WorkerPool::spawn_box_fn called by the program, with a thunk of its own
Spawn(r) ==
  /\ pool_handles >= 1
  /\ spawns < MaxSpawns
  /\ spawns' = spawns + 1
  /\ spawned' = Append(spawned, r)
  /\ queue' = Append(queue, Run(0 - (spawns + 1), r))
  /\ UNCHANGED <<current_event_id, completed, callbacks, running, executed,
                 registered, completeLog, created, pool_handles, live,
                 exited>>
  /\ UNCHANGED <<vaultVars, bufferVars, kernelVars, contextVars, spin>>

\* Clone for WorkerPool
ClonePool ==
  /\ pool_handles >= 1
  /\ pool_handles < MaxHandles
  /\ pool_handles' = pool_handles + 1
  /\ UNCHANGED <<current_event_id, completed, callbacks, queue, running,
                 executed, registered, completeLog, created, live, exited,
                 spawns,
                 spawned>>
  /\ UNCHANGED <<vaultVars, bufferVars, kernelVars, contextVars, spin>>

\* the program drops one of its WorkerPool handles
DropPool ==
  /\ pool_handles >= 1
  /\ pool_handles' = pool_handles - 1
  /\ queue' = queue \o DropLast(pool_handles - 1, live)
  /\ UNCHANGED <<current_event_id, completed, callbacks, running, executed,
                 registered, completeLog, created, live, exited, spawns,
                 spawned>>
  /\ UNCHANGED <<vaultVars, bufferVars, kernelVars, contextVars, spin>>

\* the last handle of event e is dropped: its EventInner goes, with the
\* callbacks it stores and the WorkerPool handle it owns
DropEvent(e) ==
  /\ e \in live
  /\ live' = live \ {e}
  /\ callbacks' = [callbacks EXCEPT ![e] = <<>>]
  /\ queue' = queue \o DropLast(pool_handles, live \ {e})
  /\ UNCHANGED <<current_event_id, completed, running, executed,
                 registered, completeLog, created, pool_handles, exited,
                 spawns,
                 spawned>>
  /\ UNCHANGED <<vaultVars, bufferVars, kernelVars, contextVars, spin>>

\* WorkerPool::new_with_size: an empty queue, idle workers, no event yet
EventInit ==
  /\ current_event_id = 0
  /\ completed = <<>>
  /\ callbacks = <<>>
  /\ queue = <<>>
  /\ running = [w \in Workers |-> NoItem]
  /\ executed = <<>>
  /\ registered = <<>>
  /\ completeLog = <<>>
  /\ created = <<>>
  /\ pool_handles = 1
  /\ live = {}
  /\ exited = {}
  /\ spawns = 0
  /\ spawned = <<>>

(***************************************************************************)
(* The broadcasted dot kernel (src/popcorn-blas) and the pipelines that    *)
(* run it: lock the six buffers, call bcast_dot, drop the guards.  The     *)
(* kernel's elements (usize, f32) are WordBytes bytes wide.                *)
(***************************************************************************)

\* the arguments of bcast_dot: shape_a, a, shape_b, b, shape_c, c
Args == 1..6

Pipes == 1..NumPipes

\* the buffers of the pipelines: six made for each
KBufs == 1..(NumPipes * 6)

\* the argument that buffer b was made for
RoleOf(b) == ((b - 1) % 6) + 1

\* the buffer that pipeline p passes as argument k: its own, or the one of
\* the first pipeline when it shares that argument
BufOf(p, k) == IF k \in kshare[p] THEN k ELSE ((p - 1) * 6) + k

\* the bytes of one element of the kernel
EncodeWord(e) == [j \in 1..WordBytes |-> (e \div (2 ^ (j - 1))) % 2]

\* the bytes of a slice of elements
WordsToBytes(vec) ==
  [k \in 1..(Len(vec) * WordBytes) |->
     EncodeWord(vec[((k - 1) \div WordBytes) + 1])[((k - 1) % WordBytes) + 1]]

\* Memory::try_as_slice: the memory seen as a slice of elements; fails
\* unless the memory is a whole number of elements
TryAsSlice(mem) ==
  IF Len(mem) % WordBytes = 0
    THEN [ok |-> TRUE,
          slice |-> [i \in 1..(Len(mem) \div WordBytes) |->
                       DecodeElem(mem, (i - 1) * WordBytes, WordBytes)]]
    ELSE [ok |-> FALSE, slice |-> <<>>]

RECURSIVE Prod(_)
\* the product of the dimensions of a shape
Prod(s) == IF s = <<>> THEN 1 ELSE Head(s) * Prod(Tail(s))

\* a shape padded with ones on the left to n dimensions
PadLeft(s, n) ==
  [i \in 1..n |-> IF i <= n - Len(s) THEN 1 ELSE s[i - (n - Len(s))]]

\* a shape without its trailing dimension: Vec::pop
Lead(s) == SubSeq(s, 1, Len(s) - 1)

RECURSIVE RowOf(_, _, _, _)
\* the row (from 0) of an operand of leading shape ps that is paired with
\* row r (from 0) of the broadcast leading shape bs; a dimension of size
\* one is replicated
RowOf(ps, bs, r, i) ==
  IF i > Len(bs) THEN 0
  ELSE LET idx == (r \div Prod(SubSeq(bs, i + 1, Len(bs)))) % bs[i] IN
         ((IF ps[i] = 1 THEN 0 ELSE idx) * Prod(SubSeq(ps, i + 1, Len(ps))))
           + RowOf(ps, bs, r, i + 1)

\* row r (from 0) of flat row-major data whose rows have k elements
Row(data, k, r) == SubSeq(data, (r * k) + 1, (r * k) + k)

\* broadcast::try_new_broadcast(shape_a, a, shape_b, b, 1): the broadcast
\* shape, trailing dimension included, and the paired trailing vectors
TryNewBroadcast(sa, da, sb, db) ==
  IF sa = <<>> \/ sb = <<>>
    THEN [ok |-> FALSE, shape |-> <<>>, rows_a |-> <<>>, rows_b |-> <<>>]
  ELSE
    LET n  == IF Len(sa) >= Len(sb) THEN Len(sa) - 1 ELSE Len(sb) - 1
        pa == PadLeft(Lead(sa), n)
        pb == PadLeft(Lead(sb), n)
        ka == sa[Len(sa)]
        kb == sb[Len(sb)]
        bs == [i \in 1..n |-> IF pa[i] = 1 THEN pb[i] ELSE pa[i]]
    IN IF /\ \A i \in 1..n : pa[i] = pb[i] \/ pa[i] = 1 \/ pb[i] = 1
          /\ ka = kb
          /\ Len(da) = Prod(sa)
          /\ Len(db) = Prod(sb)
         THEN [ok |-> TRUE, shape |-> bs \o <<ka>>,
               rows_a |-> [r \in 1..Prod(bs) |->
                             Row(da, ka, RowOf(pa, bs, r - 1, 1))],
               rows_b |-> [r \in 1..Prod(bs) |->
                             Row(db, kb, RowOf(pb, bs, r - 1, 1))]]
         ELSE [ok |-> FALSE, shape |-> <<>>, rows_a |-> <<>>,
               rows_b |-> <<>>]

RECURSIVE DotSum(_, _, _)
\* x[1]*y[1] + ... + x[j]*y[j]
DotSum(x, y, j) ==
  IF j = 0 THEN 0 ELSE (x[j] * y[j]) + DotSum(x, y, j - 1)

\* Dot::dot(a, b): cblas_sdot over a.len() elements
Dot(x, y) == DotSum(x, y, Len(x))

\* for (v1, v2) in src.iter().zip(dst.iter_mut()) { *v2 = *v1 }
ZipWrite(src, dst) ==
  [i \in 1..Len(dst) |-> IF i <= Len(src) THEN src[i] ELSE dst[i]]

\* try!(try!(buf.native_memory(&dev)).try_as_slice()) on the kernel's
\* device
KernelView(raw) ==
  LET m == NativeMemory(raw.copies, HomeDevice) IN
    IF ~m.ok THEN [ok |-> FALSE, err |-> m.err, slice |-> <<>>]
    ELSE LET s == TryAsSlice(m.mem) IN
           IF s.ok THEN [ok |-> TRUE, err |-> "none", slice |-> s.slice]
           ELSE [ok |-> FALSE, err |-> "Native", slice |-> <<>>]

\* the thunk that bcast_dot spawns on the pool, on the six raw buffers:
\* whether it returns Ok, its error, and the raw buffers when it returns
BcastDotThunk(raws) ==
  LET v == [k \in Args |-> KernelView(raws[k])] IN
    IF \E k \in Args : ~v[k].ok
      THEN [ok |-> FALSE,
            err |-> v[CHOOSE k \in Args :
                        ~v[k].ok /\ \A j \in 1..(k - 1) : v[j].ok].err,
            raws |-> raws]
    ELSE
      LET bc == TryNewBroadcast(v[1].slice, v[2].slice, v[3].slice,
                                v[4].slice) IN
        IF ~bc.ok
          THEN [ok |-> FALSE, err |-> "InvalidBroadcast", raws |-> raws]
        ELSE
          LET bshape == Lead(bc.shape)
              r_iter == [r \in 1..Len(bc.rows_a) |->
                           Dot(bc.rows_a[r], bc.rows_b[r])]
              n_shape_c == ZipWrite(bshape, v[5].slice)
              n_c == ZipWrite(r_iter, v[6].slice)
          IN [ok |-> TRUE, err |-> "none",
              raws |-> [raws EXCEPT
                          ![5].copies = InsertCopy(@, HomeDevice,
                                                   WordsToBytes(n_shape_c)),
                          ![6].copies = InsertCopy(@, HomeDevice,
                                                   WordsToBytes(n_c))]]

\* a kernel that yields the output buffers in the other order
BcastDotItemSwapped(args) ==
  <<args[1], args[2], args[3], args[4], args[6], args[5]>>

\* Ok((shape_a, a, shape_b, b, shape_c, c)): the item of the future
BcastDotItem(args) ==
  <<args[1], args[2], args[3], args[4], args[5], args[6]>>

\* no result yet
NoOut == [ok |-> FALSE, err |-> "none", item |-> <<>>]

\* the arguments that pipeline p passes to bcast_dot: the allocating
\* bcast_dot takes shape_a, a, shape_b, b only
KArgs(p) == IF kalloc[p] THEN 1..4 ELSE Args

\* the next argument that pipeline p locks
NextArg(p) ==
  CHOOSE k \in KArgs(p) \ kheld[p] : \A j \in KArgs(p) \ kheld[p] : k <= j

\* the first guard that pipeline p drops
FirstHeld(p) == CHOOSE k \in kheld[p] : \A j \in kheld[p] : k <= j

\* VaultAcquired::drop on buffer b: the buffers and the pipelines after it
KDropGuard(bs, pcs, b) ==
  LET d == DropVault(bs[b].waiting) IN
    [kbufs |-> [bs EXCEPT ![b].locked = d.locked, ![b].waiting = d.waiting],
     kpc |-> IF d.wake \in DOMAIN pcs /\ pcs[d.wake] = "parked"
               THEN [pcs EXCEPT ![d.wake] = "acquire"] ELSE pcs]

\* a thunk whose early return drops the first buffer it owns and leaks
\* the others
KDropHead(bs, pcs, s) ==
  IF s = <<>> THEN [kbufs |-> bs, kpc |-> pcs]
  ELSE KDropGuard(bs, pcs, Head(s))

RECURSIVE KDropAll(_, _, _)
\* the guards of the buffers in sequence s are dropped one after another
KDropAll(bs, pcs, s) ==
  IF s = <<>> THEN [kbufs |-> bs, kpc |-> pcs]
  ELSE LET d == KDropGuard(bs, pcs, Head(s)) IN
         KDropAll(d.kbufs, d.kpc, Tail(s))

\* a pipeline polls the lock() future of the next buffer it needs
PipePoll(p) ==
  /\ kpc[p] = "acquire"
  /\ LET k == NextArg(p)
         b == BufOf(p, k)
         r == PollVault(kbufs[b].locked, kbufs[b].waiting, p) IN
       /\ kbufs' = [kbufs EXCEPT ![b].locked = r.locked,
                                 ![b].waiting = r.waiting]
       /\ IF r.ret = "Ready"
            THEN /\ kheld' = [kheld EXCEPT ![p] = @ \cup {k}]
                 /\ kpc' = [kpc EXCEPT ![p] = IF kheld[p] \cup {k} = KArgs(p)
                                                THEN "locked" ELSE "acquire"]
            ELSE /\ kpc' = [kpc EXCEPT ![p] = "parked"]
                 /\ UNCHANGED kheld
  /\ UNCHANGED <<kshare, kalloc, kout>>
  /\ UNCHANGED <<vaultVars, bufferVars, eventVars, contextVars, spin>>

\* bcast_dot is called with the six locked buffers: every buffer is
\* synced to the device, the futures are joined and the thunk is spawned
\* on the pool when they are ready, which they are at once
PipeCall(p) ==
  /\ kpc[p] = "locked"
  /\ ~kalloc[p]
  /\ kbufs' = [b \in KBufs |->
                 IF \E k \in Args : BufOf(p, k) = b
                   THEN LET r == SyncRaw(kbufs[b].raw.copies,
                                         kbufs[b].raw.latest_device,
                                         HomeDevice) IN
                          [kbufs[b] EXCEPT !.raw.copies = r.copies,
                                           !.raw.latest_device =
                                              r.latest_device]
                   ELSE kbufs[b]]
  /\ kpc' = [kpc EXCEPT ![p] = "queued"]
  /\ UNCHANGED <<kshare, kheld, kalloc, kout>>
  /\ UNCHANGED <<vaultVars, bufferVars, eventVars, contextVars, spin>>

\* a thread of the pool takes the thunk of pipeline p
KernelStart(p) ==
  /\ kpc[p] = "queued"
  /\ Cardinality({q \in Pipes : kpc[q] = "computing"}) < NumWorkers
  /\ kpc' = [kpc EXCEPT ![p] = "computing"]
  /\ UNCHANGED <<kbufs, kshare, kheld, kalloc, kout>>
  /\ UNCHANGED <<vaultVars, bufferVars, eventVars, contextVars, spin>>

\* the thunk of pipeline p returns and the future of bcast_dot resolves:
\* with the six locked buffers, or with an error, the buffers that the
\* thunk owned being dropped with their guards
KernelFinish(p) ==
  /\ kpc[p] = "computing"
  /\ ~kalloc[p]
  /\ LET args == [k \in Args |-> BufOf(p, k)]
         t == BcastDotThunk([k \in Args |-> kbufs[args[k]].raw]) IN
       IF t.ok
         THEN /\ kbufs' = [b \in KBufs |->
                            IF \E k \in Args : args[k] = b
                              THEN [kbufs[b] EXCEPT !.raw =
                                      t.raws[CHOOSE k \in Args : args[k] = b]]
                              ELSE kbufs[b]]
              /\ kpc' = [kpc EXCEPT ![p] = "resolved"]
              /\ kout' = [kout EXCEPT ![p] =
                            [ok |-> TRUE, err |-> "none",
                             item |-> BcastDotItem(args)]]
              /\ UNCHANGED kheld
         ELSE LET d == KDropAll(kbufs, kpc, args) IN
                /\ kbufs' = d.kbufs
                /\ kpc' = [d.kpc EXCEPT ![p] = "failed"]
                /\ kheld' = [kheld EXCEPT ![p] = {}]
                /\ kout' = [kout EXCEPT ![p] =
                              [ok |-> FALSE, err |-> t.err, item |-> <<>>]]
  /\ UNCHANGED <<kshare, kalloc>>
  /\ UNCHANGED <<vaultVars, bufferVars, eventVars, contextVars, spin>>

\* the pipeline drops the locked buffers it was given back, in the order
\* of the tuple
PipeDrop(p) ==
  /\ kpc[p] = "resolved"
  /\ LET k == FirstHeld(p)
         d == KDropGuard(kbufs, kpc, BufOf(p, k)) IN
       /\ kbufs' = d.kbufs
       /\ kheld' = [kheld EXCEPT ![p] = @ \ {k}]
       /\ kpc' = [d.kpc EXCEPT ![p] = IF kheld[p] = {k} THEN "done"
                                       ELSE "resolved"]
  /\ UNCHANGED <<kshare, kalloc, kout>>
  /\ UNCHANGED <<vaultVars, bufferVars, eventVars, contextVars, spin>>

\* an input of the kernel: shapes and data of A and B, and the sizes of
\* the output buffers that are allocated for it.  The first is the
\* repository's dot test.
DotCases ==
  { [shape_a |-> <<1, 4>>, a |-> <<1, 2, 3, 4>>,
     shape_b |-> <<1, 4>>, b |-> <<2, 2, 2, 2>>, nshape_c |-> 0, nc |-> 1],
    [shape_a |-> <<1, 4>>, a |-> <<1, 2, 3, 4>>,
     shape_b |-> <<1, 4>>, b |-> <<2, 2, 2, 2>>, nshape_c |-> 1, nc |-> 1],
    [shape_a |-> <<2, 3>>, a |-> <<1, 2, 3, 4, 5, 6>>,
     shape_b |-> <<1, 3>>, b |-> <<2, 2, 2>>, nshape_c |-> 1, nc |-> 2],
    [shape_a |-> <<2, 3>>, a |-> <<1, 2, 3, 4, 5, 6>>,
     shape_b |-> <<3, 3>>, b |-> <<1, 1, 1, 1, 1, 1, 1, 1, 1>>,
     nshape_c |-> 1, nc |-> 2] }

\* the input of the repository's dot test
DotTest ==
  [shape_a |-> <<1, 4>>, a |-> <<1, 2, 3, 4>>,
   shape_b |-> <<1, 4>>, b |-> <<2, 2, 2, 2>>, nshape_c |-> 0, nc |-> 1]

\* the raw buffer made for argument k of case c: an input is
\* Buffer::new(dev, n) filled by sync_from_vec, an output is
\* Buffer::new(dev, n), its memory filled with the byte f
KernelRaw(c, f, k) ==
  LET vec == IF k = 1 THEN c.shape_a
             ELSE IF k = 2 THEN c.a
             ELSE IF k = 3 THEN c.shape_b
             ELSE IF k = 4 THEN c.b
             ELSE IF k = 5 THEN [i \in 1..c.nshape_c |-> 0]
             ELSE [i \in 1..c.nc |-> 0]
      mem == IF k <= 4 THEN WordsToBytes(vec)
             ELSE [i \in 1..(Len(vec) * WordBytes) |-> f]
  IN RawBufferNew(HomeDevice, Len(vec), mem)

\* the pipelines before they start, on buffers made for a case in cs; a
\* pipeline other than the first shares with it the arguments in a set
\* of shs
KernelInit(cs, shs) ==
  /\ \E c \in cs, f \in {0, 1} :
       kbufs = [b \in KBufs |->
                  [locked |-> VaultNew.locked, waiting |-> VaultNew.waiting,
                   raw |-> KernelRaw(c, f, RoleOf(b))]]
  /\ kshare \in [Pipes -> shs]
  /\ kshare[1] = {}
  /\ kpc = [p \in Pipes |-> "acquire"]
  /\ kheld = [p \in Pipes |-> {}]
  /\ kalloc = [p \in Pipes |-> FALSE]
  /\ kout = [p \in Pipes |-> NoOut]

\* the pipelines of the dot test, never started
KernelIdle ==
  /\ kbufs = [b \in KBufs |->
                [locked |-> VaultNew.locked, waiting |-> VaultNew.waiting,
                 raw |-> KernelRaw(DotTest, 0, RoleOf(b))]]
  /\ kshare = [p \in Pipes |-> {}]
  /\ kpc = [p \in Pipes |-> "acquire"]
  /\ kheld = [p \in Pipes |-> {}]
  /\ kalloc = [p \in Pipes |-> FALSE]
  /\ kout = [p \in Pipes |-> NoOut]

(***************************************************************************)
(* The allocating bcast_dot (core_ops/dot.rs): it is passed A and B and    *)
(* makes the two output buffers itself.                                    *)
(***************************************************************************)

RECURSIVE Sum(_)
\* bshape.iter().sum()
Sum(s) == IF s = <<>> THEN 0 ELSE Head(s) + Sum(Tail(s))

\* RawBuffer::from_vec_native(&dev, vec) on the kernel's device
KernelFromVec(vec) ==
  [size |-> Len(vec),
   copies |-> InsertCopy(<<>>, HomeDevice, WordsToBytes(vec)),
   latest_device |-> HomeDevice]

\* the thunk that the allocating bcast_dot spawns on the pool, on the raw
\* buffers of shape_a, a, shape_b, b; the memory allocated for c is
\* filled with the byte f: whether it returns Ok, its error, and the raw
\* buffers and the vault flags of the locked shape_c and c it returns
BcastDotAllocThunk(raws, f) ==
  LET v == [k \in 1..4 |-> KernelView(raws[k])]
      none == RawBufferNew(HomeDevice, 0, <<>>) IN
    IF \E k \in 1..4 : ~v[k].ok
      THEN [ok |-> FALSE,
            err |-> v[CHOOSE k \in 1..4 :
                        ~v[k].ok /\ \A j \in 1..(k - 1) : v[j].ok].err,
            shape_c |-> none, c |-> none, locked |-> FALSE]
    ELSE
      LET bc == TryNewBroadcast(v[1].slice, v[2].slice, v[3].slice,
                                v[4].slice) IN
        IF ~bc.ok
          THEN [ok |-> FALSE, err |-> "InvalidBroadcast",
                shape_c |-> none, c |-> none, locked |-> FALSE]
        ELSE
          LET bshape == Lead(bc.shape)
              capacity == Sum(bshape)
              c == RawBufferNew(HomeDevice, capacity,
                                [i \in 1..(capacity * WordBytes) |-> f])
              lk == TryLockVault(VaultNew.locked)
              n_c == KernelView(c)
              r_iter == [r \in 1..Len(bc.rows_a) |->
                           Dot(bc.rows_a[r], bc.rows_b[r])]
          IN IF lk.ret /= "Ok"
               THEN [ok |-> FALSE, err |-> "InvalidLock",
                     shape_c |-> none, c |-> none, locked |-> FALSE]
             ELSE IF ~n_c.ok
               THEN [ok |-> FALSE, err |-> n_c.err,
                     shape_c |-> none, c |-> none, locked |-> FALSE]
             ELSE [ok |-> TRUE, err |-> "none",
                   shape_c |-> KernelFromVec(bshape),
                   c |-> [c EXCEPT !.copies =
                            InsertCopy(@, HomeDevice,
                                       WordsToBytes(ZipWrite(r_iter,
                                                             n_c.slice)))],
                   locked |-> lk.locked]

\* the allocating bcast_dot is called with the four locked buffers:
\* every buffer is synced to the device, the futures are joined and the
\* thunk is spawned on the pool
AllocCall(p) ==
  /\ kpc[p] = "locked"
  /\ kalloc[p]
  /\ kbufs' = [b \in KBufs |->
                 IF \E k \in KArgs(p) : BufOf(p, k) = b
                   THEN LET r == SyncRaw(kbufs[b].raw.copies,
                                         kbufs[b].raw.latest_device,
                                         HomeDevice) IN
                          [kbufs[b] EXCEPT !.raw.copies = r.copies,
                                           !.raw.latest_device =
                                              r.latest_device]
                   ELSE kbufs[b]]
  /\ kpc' = [kpc EXCEPT ![p] = "queued"]
  /\ UNCHANGED <<kshare, kheld, kalloc, kout>>
  /\ UNCHANGED <<vaultVars, bufferVars, eventVars, contextVars, spin>>

\* the thunk of the allocating bcast_dot returns and its future resolves:
\* with the locked shape_c and c it made, or with an error; either way
\* the four buffers the thunk owned are dropped with their guards
AllocFinish(p) ==
  /\ kpc[p] = "computing"
  /\ kalloc[p]
  /\ \E f \in {0, 1} :
       LET args == [k \in 1..4 |-> BufOf(p, k)]
           t == BcastDotAllocThunk([k \in 1..4 |-> kbufs[args[k]].raw], f)
           d == KDropAll(kbufs, kpc, args) IN
         IF t.ok
           THEN /\ kbufs' = [d.kbufs EXCEPT
                               ![BufOf(p, 5)] =
                                  [locked |-> t.locked,
                                   waiting |-> VaultNew.waiting,
                                   raw |-> t.shape_c],
                               ![BufOf(p, 6)] =
                                  [locked |-> t.locked,
                                   waiting |-> VaultNew.waiting,
                                   raw |-> t.c]]
                /\ kpc' = [d.kpc EXCEPT ![p] = "resolved"]
                /\ kheld' = [kheld EXCEPT ![p] = {5, 6}]
                /\ kout' = [kout EXCEPT ![p] =
                              [ok |-> TRUE, err |-> "none",
                               item |-> <<BufOf(p, 5), BufOf(p, 6)>>]]
           ELSE /\ kbufs' = d.kbufs
                /\ kpc' = [d.kpc EXCEPT ![p] = "failed"]
                /\ kheld' = [kheld EXCEPT ![p] = {}]
                /\ kout' = [kout EXCEPT ![p] =
                              [ok |-> FALSE, err |-> t.err, item |-> <<>>]]
  /\ UNCHANGED <<kshare, kalloc>>
  /\ UNCHANGED <<vaultVars, bufferVars, eventVars, contextVars, spin>>

\* the shapes of one to three dimensions, each at most MaxDim
Shapes == UNION {[1..n -> 1..MaxDim] : n \in 1..3}

\* the inputs of the allocating kernel: A and B of every shape, their
\* data all ones; it is passed no output buffer
AllocCases ==
  {[shape_a |-> sa, a |-> [i \in 1..Prod(sa) |-> 1],
    shape_b |-> sb, b |-> [i \in 1..Prod(sb) |-> 1],
    nshape_c |-> 0, nc |-> 0] : sa \in Shapes, sb \in Shapes}

\* the pipelines before they start, each to call the allocating bcast_dot
\* on buffers made for a case in cs
AllocInit(cs) ==
  /\ \E c \in cs :
       kbufs = [b \in KBufs |->
                  [locked |-> VaultNew.locked, waiting |-> VaultNew.waiting,
                   raw |-> KernelRaw(c, 0, RoleOf(b))]]
  /\ kshare = [p \in Pipes |-> {}]
  /\ kpc = [p \in Pipes |-> "acquire"]
  /\ kheld = [p \in Pipes |-> {}]
  /\ kalloc = [p \in Pipes |-> TRUE]
  /\ kout = [p \in Pipes |-> NoOut]

\* the arguments whose buffer may have lost its device copy before the
\* kernel is called: none, the data of A, or the output c
LostArgs == {{}, {2}, {6}}

\* the raw buffer made for argument k of case c; when k is in lost, a
\* sync_to_vec future on it was dropped before it resolved, so the copy
\* of latest_device was taken out and never put back
KernelRawLost(c, f, k, lost) ==
  LET raw == KernelRaw(c, f, k) IN
    IF k \in lost
      THEN [raw EXCEPT !.copies = TakeLatest(raw.copies,
                                             raw.latest_device).copies]
      ELSE raw

\* the pipelines before they start, each to call one of the two
\* bcast_dot on buffers made for a case in cs; every pipeline takes its
\* inputs from the buffers of the first
FailureInit(cs) ==
  /\ \E c \in cs, lost \in LostArgs :
       kbufs = [b \in KBufs |->
                  [locked |-> VaultNew.locked, waiting |-> VaultNew.waiting,
                   raw |-> KernelRawLost(c, 0, RoleOf(b), lost)]]
  /\ kshare = [p \in Pipes |-> IF p = 1 THEN {} ELSE 1..4]
  /\ kpc = [p \in Pipes |-> "acquire"]
  /\ kheld = [p \in Pipes |-> {}]
  /\ kalloc \in [Pipes -> BOOLEAN]
  /\ kout = [p \in Pipes |-> NoOut]

\* the variants of buffer::Error
BufferErrors ==
  {"Native", "InvalidLock", "InvalidRawBuffer", "InvalidDevice",
   "InvalidBroadcast"}

(***************************************************************************)
(* Context, Socket and the executables (src/popcorn-butter)                *)
(***************************************************************************)

\* the executables; each has a uid of its own (Uuid::new_v4), written as
\* its number
Nodes == 1..NumNodes

\* the element types Base of sockets and buffers
Types == {"f32", "usize"}

\* the indexes a socket may ask for
Indexes == 0..1

\* the outputs an executable that succeeds may return: the element type
\* of each shared buffer future
SourceOuts == {<<"f32">>}

\* what executable n may be: a Placeholder, an executable whose exec
\* returns Ok(outputs), or a Dot over the first outputs of two
\* executables made before it
NodeKinds(n) ==
  {[kind |-> "Placeholder", outs |-> <<>>, a |-> 0, b |-> 0]}
    \cup {[kind |-> "Source", outs |-> o, a |-> 0, b |-> 0] : o \in SourceOuts}
    \cup {[kind |-> "Dot", outs |-> <<>>, a |-> x, b |-> y] :
            x \in 1..(n - 1), y \in 1..(n - 1)}

\* the graphs of executables
Graphs ==
  {g \in [Nodes -> UNION {NodeKinds(n) : n \in Nodes}] :
     \A n \in Nodes : g[n] \in NodeKinds(n)}

\* no output
NoOutput == [ty |-> "none", src |-> "none", of |-> 0, idx |-> 0, gen |-> 0]

\* the boxed shared future that set_input stores: the k-th buffer future
\* given to the context, of element type ty
InputItem(ty, k) ==
  [ty |-> ty, src |-> "input", of |-> k, idx |-> 0, gen |-> 0]

\* the i-th output (from 0) of the gen-th invocation of the exec of n
ExecItem(g, n, i, gen) ==
  [ty |-> g[n].outs[i + 1], src |-> "exec", of |-> n, idx |-> i, gen |-> gen]

\* an insert that keeps the entry a key already has
CacheInsertKeep(c, uid, items) ==
  [u \in (DOMAIN c) \cup {uid} |-> IF u \in DOMAIN c THEN c[u] ELSE items]

\* HashMap::insert on the cache
CacheInsert(c, uid, items) ==
  [u \in (DOMAIN c) \cup {uid} |-> IF u = uid THEN items ELSE c[u]]

\* a context that runs the executable on every request
CacheExecutableAlways(g, st, n, r) ==
  IF ~r.ok THEN [st |-> r.st, ok |-> FALSE, err |-> r.err]
  ELSE [st |-> [r.st EXCEPT !.cache = CacheInsert(@, n, r.items)],
        ok |-> TRUE, err |-> "none"]

\* Context::cache_executable on the context st (cache, execs), r being
\* what e.exec(self) returns if it is called
CacheExecutable(g, st, n, r) ==
  IF n \in DOMAIN st.cache THEN [st |-> st, ok |-> TRUE, err |-> "none"]
  ELSE IF ~r.ok THEN [st |-> r.st, ok |-> FALSE, err |-> r.err]
  ELSE [st |-> [r.st EXCEPT !.cache = CacheInsert(@, n, r.items)],
        ok |-> TRUE, err |-> "none"]

\* exec.rs:75-77: cache.get(uid), Vec::get(index), downcast_ref to the
\* socket's SBBF<Base>, the clone of the shared future
CacheGet(c, n, index, ty) ==
  IF n \in DOMAIN c /\ index < Len(c[n]) /\ c[n][index + 1].ty = ty
    THEN [ok |-> TRUE, err |-> "none", item |-> c[n][index + 1]]
    ELSE [ok |-> FALSE, err |-> "NoSuchElement", item |-> NoOutput]

RECURSIVE ExecNode(_, _, _)
RECURSIVE TryCaching(_, _, _, _, _)
\* Executable::exec of executable n on the context st
ExecNode(g, st, n) ==
  LET st1 == [st EXCEPT !.execs[n] = @ + 1] IN
    IF g[n].kind = "Placeholder"
      THEN [st |-> st1, ok |-> FALSE, err |-> "PlaceholderError",
            items |-> <<>>]
    ELSE IF g[n].kind = "Source"
      THEN [st |-> st1, ok |-> TRUE, err |-> "none",
            items |-> [i \in 1..Len(g[n].outs) |->
                         ExecItem(g, n, i - 1, st1.execs[n])]]
    ELSE LET ar == TryCaching(g, st1, g[n].a, 0, "f32") IN
           IF ~ar.ok
             THEN [st |-> ar.st, ok |-> FALSE, err |-> ar.err, items |-> <<>>]
           ELSE LET br == TryCaching(g, ar.st, g[n].b, 0, "f32") IN
                  IF ~br.ok
                    THEN [st |-> br.st, ok |-> FALSE, err |-> br.err,
                          items |-> <<>>]
                  ELSE [st |-> br.st, ok |-> FALSE,
                        err |-> "PlaceholderError", items |-> <<>>]

\* Context::try_caching (what Socket::exec calls) on the context st
TryCaching(g, st, n, index, ty) ==
  LET c == CacheExecutable(g, st, n, ExecNode(g, st, n)) IN
    IF ~c.ok
      THEN [st |-> c.st, ok |-> FALSE, err |-> c.err, item |-> NoOutput]
      ELSE LET r == CacheGet(c.st.cache, n, index, ty) IN
             [st |-> c.st, ok |-> r.ok, err |-> r.err, item |-> r.item]

RECURSIVE ExecTotal(_, _)
\* the number of exec invocations of the executables 1..n
ExecTotal(e, n) == IF n = 0 THEN 0 ELSE e[n] + ExecTotal(e, n - 1)

\* no call of Socket::exec yet
NoExec == [node |-> 0, index |-> 0, ty |-> "none", ok |-> FALSE,
           err |-> "none", item |-> NoOutput]

\* ctx.set_input(uid, buf) with a buffer future of element type ty
SetInput(uid, ty) ==
  /\ ninputs < MaxInputs
  /\ cache' = CacheInsert(cache, uid, <<InputItem(ty, ninputs + 1)>>)
  /\ ninputs' = ninputs + 1
  /\ bound' = [bound EXCEPT ![uid] = InputItem(ty, ninputs + 1)]
  /\ UNCHANGED <<nodes, execs, lastExec>>
  /\ UNCHANGED <<vaultVars, bufferVars, eventVars, kernelVars, spin>>

\* Socket::<ty>::new(n, index).exec(&mut ctx)
SocketExec(n, index, ty) ==
  LET r == TryCaching(nodes, [cache |-> cache, execs |-> execs], n, index,
                      ty) IN
    /\ ExecTotal(r.st.execs, NumNodes) <= MaxExecs
    /\ cache' = r.st.cache
    /\ execs' = r.st.execs
    /\ lastExec' = [node |-> n, index |-> index, ty |-> ty, ok |-> r.ok,
                    err |-> r.err, item |-> r.item]
    /\ UNCHANGED <<nodes, ninputs, bound>>
    /\ UNCHANGED <<vaultVars, bufferVars, eventVars, kernelVars, spin>>

\* Context::new() for the executables of graph g
ContextNew(g) ==
  /\ nodes = g
  /\ cache = <<>>
  /\ execs = [n \in Nodes |-> 0]
  /\ ninputs = 0
  /\ bound = [n \in Nodes |-> NoOutput]
  /\ lastExec = NoExec

\* a context that is never used, its executables placeholders
ContextIdle ==
  ContextNew([n \in Nodes |->
                [kind |-> "Placeholder", outs |-> <<>>, a |-> 0, b |-> 0]])

(***************************************************************************)
(* The spin locks: the spin::Mutex<EventInner> of every event (work.rs)    *)
(* and the spin::Mutex<InnerLock> of the vault (vault.rs), taken by the    *)
(* program's threads and by the worker threads.  A call that takes a spin  *)
(* lock is three steps here: the call, the acquisition of the lock, and    *)
(* the body with the release of the lock at its end.                       *)
(***************************************************************************)

\* the threads of the program that use the events
Callers == 1..NumCallers

\* the thread of worker w
WorkerThread(w) == NumCallers + w

Threads == Callers \cup {WorkerThread(w) : w \in Workers}

\* the spin lock of event e, the spin lock of the vault, and no lock
EvLock(e) == <<"event", e>>

VaultSpin == <<"vault", TheInner>>

NoLock == <<"none", 0>>

\* what the thunk given to callback() does when it is invoked: nothing
\* with a lock, complete() on its own event with the result it was
\* given, callback() on its own event with a thunk that does nothing, or
\* try_lock() on the vault with the result dropped at once
ThunkKinds == {"none", "complete", "callback", "try_lock"}

\* a thread that is in no call and holds no spin lock
IdleThread ==
  [held |-> {}, want |-> NoLock, op |-> "none", lock |-> NoLock,
   arg |-> "none", inline |-> <<>>, from |-> FALSE]

\* the kind of thunk f and the event it was registered on
KindOf(f) == IF f \in 1..Len(registered) THEN registered[f].kind ELSE "none"

OwnEvent(f) == registered[f].event

\* a dispatch that invokes the thunks in the calling thread, inside
\* the critical section
DispatchInline(items) == [queue |-> <<>>, inline |-> items]

\* what callback_box and complete do with the items they have to
\* dispatch: spawn_box_fn pushes each on the pool's queue, none is invoked
Dispatch(items) == [queue |-> items, inline |-> <<>>]

\* the entry of executed for item it invoked by thread th
Ran(it, th) ==
  [f |-> it.f, r |-> it.r,
   worker |-> IF th > NumCallers THEN th - NumCallers ELSE 0]

\* thread th returns from the body of its call and releases lock lk, or
\* from a thunk that called nothing (ends): the thread, the workers' items
\* and the thunks invoked afterwards.  Items in inl are invoked by th
\* before it releases the lock.
Returned(th, lk, inl, ends) ==
  LET s == spin[th]
      w == th - NumCallers
      outer == th > NumCallers /\ running[w] /= NoItem
  IN
    IF inl /= <<>>
      THEN [spin |-> [spin EXCEPT ![th] = [s EXCEPT !.op = "inline",
                                                    !.inline = inl]],
            running |-> running, executed |-> executed]
    ELSE IF s.inline /= <<>>
      THEN LET rest == Tail(s.inline)
               e1 == Append(executed, Ran(Head(s.inline), th)) IN
             IF rest /= <<>>
               THEN [spin |-> [spin EXCEPT ![th] =
                                 [s EXCEPT !.held = @ \ {lk}, !.op = "inline",
                                           !.want = NoLock, !.inline = rest]],
                     running |-> running, executed |-> e1]
               ELSE [spin |-> [spin EXCEPT ![th] = IdleThread],
                     running |-> IF outer
                                   THEN [running EXCEPT ![w] = NoItem]
                                   ELSE running,
                     executed |-> IF outer
                                    THEN Append(e1, Ran(running[w], th))
                                    ELSE e1]
    ELSE [spin |-> [spin EXCEPT ![th] = IdleThread],
          running |-> IF ends THEN [running EXCEPT ![w] = NoItem]
                      ELSE running,
          executed |-> IF ends THEN Append(executed, Ran(running[w], th))
                       ELSE executed]

\* the calls that the program's threads have made and whose body has not
\* run yet
PendingCalls == {th \in Callers : spin[th].op /= "none"}

\* a thread of the program calls Event::complete(result) on event e
CallComplete(th, e, result) ==
  /\ spin[th] = IdleThread
  /\ e \in Events
  /\ Len(completeLog) + Len(registered) + Cardinality(PendingCalls) < MaxCalls
  /\ spin' = [spin EXCEPT ![th] = [IdleThread EXCEPT !.want = EvLock(e),
                                                     !.op = "complete",
                                                     !.lock = EvLock(e),
                                                     !.arg = result]]
  /\ UNCHANGED <<vaultVars, bufferVars, eventVars, kernelVars, contextVars>>

\* a thread of the program calls Event::callback(f) on event e, f a thunk
\* of kind k
CallCallback(th, e, k) ==
  /\ spin[th] = IdleThread
  /\ e \in Events
  /\ Len(completeLog) + Len(registered) + Cardinality(PendingCalls) < MaxCalls
  /\ spin' = [spin EXCEPT ![th] = [IdleThread EXCEPT !.want = EvLock(e),
                                                     !.op = "callback",
                                                     !.lock = EvLock(e),
                                                     !.arg = k]]
  /\ UNCHANGED <<vaultVars, bufferVars, eventVars, kernelVars, contextVars>>

\* spin::Mutex::lock: the thread spins until no thread holds the lock
SpinAcquire(th) ==
  /\ spin[th].want /= NoLock
  /\ \A u \in Threads : spin[th].want \notin spin[u].held
  /\ spin' = [spin EXCEPT ![th].held = @ \cup {spin[th].want},
                          ![th].want = NoLock]
  /\ UNCHANGED <<vaultVars, bufferVars, eventVars, kernelVars, contextVars>>

\* the body of Event::complete, from the lock to the return
BodyComplete(th) ==
  LET s == spin[th]
      e == s.lock[2]
      r == EventComplete(completed[e], callbacks[e], s.arg)
      d == Dispatch(r.spawn)
      ret == Returned(th, s.lock, d.inline, s.from) IN
    /\ s.op = "complete" /\ s.want = NoLock /\ s.lock \in s.held
    /\ completed' = [completed EXCEPT ![e] = r.completed]
    /\ callbacks' = [callbacks EXCEPT ![e] = r.callbacks]
    /\ queue' = queue \o d.queue
    /\ completeLog' = Append(completeLog,
                             [event |-> e, result |-> s.arg,
                              ret |-> r.ret, spawned |-> Len(r.spawn),
                              found |-> completed[e]])
    /\ spin' = ret.spin
    /\ running' = ret.running
    /\ executed' = ret.executed
    /\ UNCHANGED <<current_event_id, registered, created, poolVars>>
    /\ UNCHANGED <<vaultVars, bufferVars, kernelVars, contextVars>>

\* the body of Event::callback_box, from the lock to the return
BodyCallback(th) ==
  LET s == spin[th]
      e == s.lock[2]
      f == Len(registered) + 1
      r == CallbackBox(completed[e], callbacks[e], f)
      d == Dispatch(r.spawn)
      ret == Returned(th, s.lock, d.inline, s.from) IN
    /\ s.op = "callback" /\ s.want = NoLock /\ s.lock \in s.held
    /\ callbacks' = [callbacks EXCEPT ![e] = r.callbacks]
    /\ queue' = queue \o d.queue
    /\ registered' = Append(registered,
                            [f |-> f, event |-> e, late |-> completed[e],
                             kind |-> s.arg])
    /\ spin' = ret.spin
    /\ running' = ret.running
    /\ executed' = ret.executed
    /\ UNCHANGED <<current_event_id, completed, completeLog, created,
                   poolVars>>
    /\ UNCHANGED <<vaultVars, bufferVars, kernelVars, contextVars>>

\* the body of Vault::try_lock; the guard it may return is dropped by the
\* caller at once, which is a call of VaultAcquired::drop
BodyTryLock(th) ==
  LET s == spin[th]
      r == TryLockVault(locked)
      ret == Returned(th, s.lock, <<>>, s.from) IN
    /\ s.op = "try_lock" /\ s.want = NoLock /\ s.lock \in s.held
    /\ locked' = r.locked
    /\ IF r.ret = "Ok"
         THEN /\ spin' = [spin EXCEPT ![th].held = @ \ {s.lock},
                                      ![th].want = VaultSpin,
                                      ![th].op = "drop"]
              /\ UNCHANGED <<running, executed>>
         ELSE /\ spin' = ret.spin
              /\ running' = ret.running
              /\ executed' = ret.executed
    /\ UNCHANGED <<waiting, pc, lastAcq, tries, handle>>
    /\ UNCHANGED <<current_event_id, completed, callbacks, queue,
                   registered, completeLog, created, poolVars>>
    /\ UNCHANGED <<bufferVars, kernelVars, contextVars>>

\* the body of VaultAcquired::drop
BodyDrop(th) ==
  LET s == spin[th]
      d == DropVault(waiting)
      ret == Returned(th, s.lock, <<>>, s.from) IN
    /\ s.op = "drop" /\ s.want = NoLock /\ s.lock \in s.held
    /\ locked' = d.locked
    /\ waiting' = d.waiting
    /\ pc' = Unpark(pc, d.wake)
    /\ spin' = ret.spin
    /\ running' = ret.running
    /\ executed' = ret.executed
    /\ UNCHANGED <<lastAcq, tries, handle>>
    /\ UNCHANGED <<current_event_id, completed, callbacks, queue,
                   registered, completeLog, created, poolVars>>
    /\ UNCHANGED <<bufferVars, kernelVars, contextVars>>

\* a thread invokes the thunk it has to run, f(r): a worker the item it
\* popped, a thread that dispatches inline the first item left.  The thunk
\* returns at once or makes the call of its kind.
ThunkStep(th) ==
  LET s == spin[th]
      w == th - NumCallers
      it == IF s.op = "inline" THEN Head(s.inline) ELSE running[w]
      k == KindOf(it.f)
      lk == IF k = "try_lock" THEN VaultSpin ELSE EvLock(OwnEvent(it.f))
      ret == Returned(th, NoLock, <<>>, TRUE) IN
    /\ s.want = NoLock
    /\ \/ s.op = "inline"
       \/ s.op = "none" /\ th > NumCallers /\ running[w] /= NoItem
    /\ IF k = "none"
         THEN /\ spin' = ret.spin
              /\ running' = ret.running
              /\ executed' = ret.executed
         ELSE /\ spin' = [spin EXCEPT ![th].want = lk, ![th].lock = lk,
                                      ![th].op = k,
                                      ![th].arg = IF k = "complete" THEN it.r
                                                  ELSE "none",
                                      ![th].from = TRUE]
              /\ UNCHANGED <<running, executed>>
    /\ UNCHANGED <<current_event_id, completed, callbacks, queue,
                   registered, completeLog, created, poolVars>>
    /\ UNCHANGED <<vaultVars, bufferVars, kernelVars, contextVars>>

\* no thread is in a call
SpinInit == spin = [th \in Threads |-> IdleThread]

Init ==
  VaultInit /\ BufferInit /\ EventInit /\ KernelIdle /\ ContextIdle /\ SpinInit

\* a vault whose data is the raw buffer of Buffer::new(dev, 0)
InitVault ==
  /\ VaultInit
  /\ BufferInit
  /\ size = 0
  /\ EventInit
  /\ KernelIdle
  /\ ContextIdle
  /\ SpinInit

\* pipelines that run the kernel on the dot test; a pipeline may share
\* the buffers of A with the first
InitKernel ==
  /\ VaultInit
  /\ BufferInit
  /\ size = 0
  /\ EventInit
  /\ KernelInit({DotTest}, {{}, {1, 2}})
  /\ ContextIdle
  /\ SpinInit

\* one pipeline that runs the allocating kernel on the inputs of
\* AllocCases
InitAlloc ==
  /\ VaultInit
  /\ BufferInit
  /\ size = 0
  /\ EventInit
  /\ AllocInit(AllocCases)
  /\ ContextIdle
  /\ SpinInit

\* pipelines that run either kernel on the inputs of DotCases, some of
\* which make it fail
InitFailure ==
  /\ VaultInit
  /\ BufferInit
  /\ size = 0
  /\ EventInit
  /\ FailureInit(DotCases)
  /\ ContextIdle
  /\ SpinInit

\* one pipeline that runs the kernel on the inputs of DotCases
InitDot ==
  /\ VaultInit
  /\ BufferInit
  /\ size = 0
  /\ EventInit
  /\ KernelInit(DotCases, {{}})
  /\ ContextIdle
  /\ SpinInit

VaultNext ==
  \E t \in Tasks :
    \/ Lock(t)
    \/ Poll(t)
    \/ Repoll(t)
    \/ TryLock(t)
    \/ DropGuard(t)
    \/ DropAcquire(t)

\* the vault on its own, used by NumTasks tasks
SpecVault == InitVault /\ [][VaultNext]_vars

IntoNext ==
  \E t \in Tasks :
    \/ Lock(t)
    \/ Poll(t)
    \/ TryLock(t)
    \/ DropGuard(t)
    \/ DropHandle(t)
    \/ IntoVault(t)

\* the vault, its guards dropped or converted back into handles
SpecInto == InitVault /\ [][IntoNext]_vars

\* the events, their callbacks and the vault, with the spin locks
SpinNext ==
  \/ CreateEvent
  \/ \E th \in Callers, e \in Events, result \in Results :
       CallComplete(th, e, result)
  \/ \E th \in Callers, e \in Events, k \in ThunkKinds :
       CallCallback(th, e, k)
  \/ \E th \in Threads : SpinAcquire(th)
  \/ \E th \in Threads : BodyComplete(th)
  \/ \E th \in Threads : BodyCallback(th)
  \/ \E th \in Threads : BodyTryLock(th)
  \/ \E th \in Threads : BodyDrop(th)
  \/ \E th \in Threads : ThunkStep(th)
  \/ \E w \in Workers : WorkerPop(w)

\* a step of thread th: it takes the lock it spins on, runs the body of
\* its call, or invokes the thunk it has to run
ThreadStep(th) ==
  \/ SpinAcquire(th)
  \/ BodyComplete(th)
  \/ BodyCallback(th)
  \/ BodyTryLock(th)
  \/ BodyDrop(th)
  \/ ThunkStep(th)

\* a thread that can run does, and an idle worker pops the queue
FairSpecSpin ==
  /\ InitVault
  /\ [][SpinNext]_vars
  /\ \A th \in Threads : WF_vars(ThreadStep(th))
  /\ \A w \in Workers : WF_vars(WorkerPop(w))

\* only the first task holds the vault; the others are given clones
InitClone ==
  /\ VaultInitState
  /\ handle = [t \in Tasks |-> IF t = 1 THEN TheInner ELSE NoHandle]
  /\ BufferInit
  /\ size = 0
  /\ EventInit
  /\ KernelIdle
  /\ ContextIdle
  /\ SpinInit

CloneNext ==
  \E t \in Tasks :
    \/ \E u \in Tasks : Clone(t, u)
    \/ Lock(t)
    \/ Poll(t)
    \/ Repoll(t)
    \/ TryLock(t)
    \/ DropGuard(t)

\* the vault used through clones of its handle
SpecClone == InitClone /\ [][CloneNext]_vars

\* the vault under finite contention: no future is abandoned, only MaxTry
\* try_lock() calls are made
FairVaultNext ==
  \E t \in Tasks :
    \/ Lock(t)
    \/ Poll(t)
    \/ Repoll(t)
    \/ TryLockFinite(t)
    \/ DropGuard(t)

\* a task that was spawned or unparked polls its future, and a guard that
\* was obtained is dropped
FairSpecVault ==
  /\ InitVault
  /\ [][FairVaultNext]_vars
  /\ \A t \in Tasks : WF_vars(Poll(t)) /\ WF_vars(DropGuard(t))

\* the buffer, locked and used by NumBufTasks tasks
BufferNext ==
  \E t \in BufTasks :
    \/ Lock(t)
    \/ Poll(t)
    \/ TryLock(t)
    \/ DropGuard(t)
    \/ \E v \in Vecs : SyncFromVec(t, v)
    \/ ResolveSyncFromVec(t)
    \/ SyncToVec(t)
    \/ ResolveSyncToVec(t)
    \/ DropFuture(t)
    \/ \E d \in Devices : Sync(t, d)

SpecBuffer == Init /\ [][BufferNext]_vars

\* the buffer of Buffer::new(dev, 0), locked and used by NumBufTasks tasks
SpecEmptyBuffer == InitVault /\ [][BufferNext]_vars

\* the buffer, locked with try_lock, written with sync_from_vec and read
\* in place through native_memory and native_memory_mut
NativeNext ==
  \E t \in BufTasks :
    \/ TryLock(t)
    \/ DropGuard(t)
    \/ \E v \in Vecs : SyncFromVec(t, v)
    \/ ResolveSyncFromVec(t)
    \/ \E d \in Devices, mut \in BOOLEAN : NativeMemoryCall(t, d, mut)

SpecNative == Init /\ [][NativeNext]_vars

\* the worker pool, its events and the threads that use them
EventNext ==
  \/ CreateEvent
  \/ \E e \in Events : Callback(e)
  \/ \E e \in Events, result \in Results : Complete(e, result)
  \/ \E w \in Workers : WorkerPop(w)
  \/ \E w \in Workers : WorkerRun(w)

SpecEvent == InitVault /\ [][EventNext]_vars

\* the worker pool with a single worker thread
SingleWorkerNext ==
  \/ CreateEvent
  \/ \E e \in Events : Callback(e)
  \/ \E e \in Events, result \in Results : Complete(e, result)
  \/ WorkerPop(1)
  \/ WorkerRun(1)

SpecSingleWorker == InitVault /\ [][SingleWorkerNext]_vars

\* the pipelines that run the kernel
KernelNext ==
  \E p \in Pipes :
    \/ PipePoll(p)
    \/ PipeCall(p)
    \/ KernelStart(p)
    \/ KernelFinish(p)
    \/ PipeDrop(p)

SpecKernel == InitKernel /\ [][KernelNext]_vars

\* the kernel run by the first pipeline alone
DotNext ==
  \/ PipePoll(1)
  \/ PipeCall(1)
  \/ KernelStart(1)
  \/ KernelFinish(1)
  \/ PipeDrop(1)

SpecDot == InitDot /\ [][DotNext]_vars

\* the pipelines that run either kernel
FailureNext ==
  \E p \in Pipes :
    \/ PipePoll(p)
    \/ PipeCall(p)
    \/ AllocCall(p)
    \/ KernelStart(p)
    \/ KernelFinish(p)
    \/ AllocFinish(p)
    \/ PipeDrop(p)

\* the thunk that a worker runs returns.  KernelFinish(p) or
\* AllocFinish(p) is enabled exactly when kpc[p] = "computing" and is the
\* only step that leaves it, so this is weak fairness of the two
ThunkReturns(p) == []<>(kpc[p] /= "computing")

\* the executor polls a pipeline that was spawned or unparked, the pool
\* runs every thunk it was given, and a pipeline calls the kernel with the
\* guards it obtained and drops what it is given back
FairSpecFailure ==
  /\ InitFailure
  /\ [][FailureNext]_vars
  /\ \A p \in Pipes :
       /\ WF_vars(PipePoll(p))
       /\ WF_vars(PipeCall(p))
       /\ WF_vars(AllocCall(p))
       /\ WF_vars(KernelStart(p))
       /\ ThunkReturns(p)
       /\ WF_vars(PipeDrop(p))

\* a context over a graph of executables
InitContext ==
  /\ VaultInit
  /\ BufferInit
  /\ size = 0
  /\ EventInit
  /\ KernelIdle
  /\ \E g \in Graphs : ContextNew(g)
  /\ SpinInit

\* the calls on the context
ContextNext ==
  \/ \E uid \in Nodes, ty \in Types : SetInput(uid, ty)
  \/ \E n \in Nodes, index \in Indexes, ty \in Types : SocketExec(n, index, ty)

SpecContext == InitContext /\ [][ContextNext]_vars

\* the allocating kernel run by the first pipeline alone
AllocNext ==
  \/ PipePoll(1)
  \/ AllocCall(1)
  \/ KernelStart(1)
  \/ AllocFinish(1)
  \/ PipeDrop(1)

SpecAlloc == InitAlloc /\ [][AllocNext]_vars

\* the worker pool, the handles to it and its shutdown
PoolNext ==
  \/ CreateEvent
  \/ ClonePool
  \/ DropPool
  \/ \E e \in Events : DropEvent(e)
  \/ \E r \in Results : Spawn(r)
  \/ \E w \in Workers : WorkerPop(w)
  \/ \E w \in Workers : WorkerRun(w)

\* a worker thread that can pop an item does, and a thunk that was
\* invoked returns
FairSpecPool ==
  /\ InitVault
  /\ [][PoolNext]_vars
  /\ \A w \in Workers : WF_vars(WorkerPop(w)) /\ WF_vars(WorkerRun(w))

(***************************************************************************)
(* Properties of the vault                                                 *)
(***************************************************************************)

\* C1: at most one VaultAcquired guard exists at any time, and every poll
\* of a lock() future that is made while a guard exists returns NotReady.
VaultExclusion ==
  /\ Cardinality(Guards) <= 1
  /\ (lastAcq.op = "poll" /\ lastAcq.guard) => lastAcq.ret = "NotReady"

\* a guard exists and two polls were turned away while it existed
VaultExclusionWitness ==
  /\ \E t \in Tasks : pc[t] = "holding"
  /\ lastAcq.op = "poll" /\ lastAcq.guard /\ lastAcq.ret = "NotReady"
  /\ Len(waiting) >= 2

\* C2: whenever a guard is dropped while a lock() future is pending, some
\* pending acquirer eventually obtains the guard: a poll returns the guard.
VaultProgress ==
  (~locked /\ Pending /= {})
    ~> (locked /\ lastAcq.op = "poll" /\ lastAcq.ret = "Ready")

\* C13: try_lock() returns a guard exactly when the vault is unlocked at
\* the call; on a locked vault it returns the busy error, InvalidLock at
\* the buffer layer, and leaves the flag, the waiting list and every task
\* as they were.
TryLockContract ==
  [][\A t \in Tasks :
       TryLock(t) =>
         /\ (lastAcq'.ret = "Ok") <=> ~locked
         /\ ~locked => (locked' /\ pc'[t] = "holding"
                        /\ BufferTryLock(lastAcq'.ret) = "LockedBuffer")
         /\ locked => /\ lastAcq'.ret = "Err"
                      /\ BufferTryLock(lastAcq'.ret) = "InvalidLock"
                      /\ locked' = locked
                      /\ waiting' = waiting
                      /\ pc' = pc]_vars

\* try_lock() was turned away by a locked vault on which a task is parked
TryLockContractWitness ==
  /\ lastAcq.op = "try_lock" /\ lastAcq.locked /\ lastAcq.ret = "Err"
  /\ locked /\ waiting /= <<>>
  /\ \E t \in Tasks : pc[t] = "parked"

\* C14: every poll of a lock() future returns the guard or NotReady, never
\* an error, so the future of Buffer::lock() never resolves with
\* InvalidLock.
LockFutureNeverFails ==
  lastAcq.op = "poll" =>
    /\ lastAcq.ret \in {"Ready", "NotReady"}
    /\ BufferLock(lastAcq.ret) /= "InvalidLock"

\* a future that found the vault locked was polled again after the guard
\* was dropped and obtained the vault
LockFutureNeverFailsWitness ==
  /\ lastAcq.op = "poll" /\ lastAcq.ret = "Ready"
  /\ \E t \in Tasks :
       /\ pc[t] = "holding"
       /\ \E i \in DOMAIN waiting : waiting[i] = t

\* C15: lock() leaves the locked flag and the waiting list as they were,
\* and a try_lock() on an unlocked vault succeeds while a lock() future
\* exists that was not polled.
LockIsPassive ==
  [][\A t \in Tasks :
       /\ Lock(t) => (locked' = locked /\ waiting' = waiting)
       /\ (/\ TryLock(t)
           /\ ~locked
           /\ \E u \in Tasks \ {t} : pc[u] = "acquire")
            => (lastAcq'.ret = "Ok" /\ pc'[t] = "holding")]_vars

\* try_lock() obtained the vault while an unpolled lock() future existed,
\* and the future is still there
LockIsPassiveWitness ==
  /\ lastAcq.op = "try_lock" /\ lastAcq.unpolled /\ lastAcq.ret = "Ok"
  /\ \E t, u \in Tasks : pc[t] = "acquire" /\ pc[u] = "holding"

\* C16: every clone of the handle points to the one Inner, so while a
\* guard obtained through any handle exists try_lock() fails and polls of
\* lock() futures return NotReady on every handle; they can succeed once
\* the guard is dropped.
CloneSharesLock ==
  /\ \A t \in Tasks : handle[t] /= NoHandle => handle[t] = TheInner
  /\ lastAcq.guard => lastAcq.ret \in {"Err", "NotReady"}

\* a task that uses a clone was turned away while a guard existed and
\* obtained the vault after the guard was dropped
CloneSharesLockWitness ==
  /\ lastAcq.op = "poll" /\ ~lastAcq.guard /\ lastAcq.ret = "Ready"
  /\ \E t \in Tasks \ {1} :
       /\ pc[t] = "holding"
       /\ \E i \in DOMAIN waiting : waiting[i] = t

(***************************************************************************)
(* Properties of the events                                                *)
(***************************************************************************)

\* the complete() calls that were made on event e
CompleteCalls(e) == {i \in DOMAIN completeLog : completeLog[i].event = e}

\* how often thunk f was pushed on the pool: the items that are queued,
\* popped by a worker, or already invoked
Enqueued(f) ==
  Cardinality({i \in DOMAIN queue : queue[i].f = f})
  + Cardinality({w \in Workers : running[w].f = f})
  + Cardinality({i \in DOMAIN executed : executed[i].f = f})

\* C3: of the complete(result) calls made on one event exactly one returns
\* true; every other call returns false, leaves the completed flag set and
\* pushes no callback on the pool.
EventSingleCompletion ==
  \A e \in Events :
    CompleteCalls(e) /= {} =>
      /\ Cardinality({i \in CompleteCalls(e) : completeLog[i].ret}) = 1
      /\ completed[e]
      /\ \A i \in CompleteCalls(e) :
           ~completeLog[i].ret =>
             completeLog[i].found /\ completeLog[i].spawned = 0

\* an event with callbacks was completed and then completed again with
\* another result
EventSingleCompletionWitness ==
  \E e \in Events :
    /\ Cardinality(CompleteCalls(e)) >= 2
    /\ \E i \in CompleteCalls(e) :
         completeLog[i].ret /\ completeLog[i].spawned >= 1
    /\ \E i, j \in CompleteCalls(e) :
         completeLog[i].result /= completeLog[j].result

\* C4: every callback registered on an event is pushed on the pool exactly
\* once when the event is completed, whether it was registered before or
\* after the completion, and never before.
EventCallbackOnce ==
  \A i \in DOMAIN registered :
    Enqueued(registered[i].f)
      = (IF completed[registered[i].event] THEN 1 ELSE 0)

\* a completed event with a callback registered before and one registered
\* after the completion, both pushed
EventCallbackOnceWitness ==
  \E i, j \in DOMAIN registered :
    /\ registered[i].event = registered[j].event
    /\ ~registered[i].late /\ registered[j].late
    /\ Enqueued(registered[i].f) = 1 /\ Enqueued(registered[j].f) = 1
    /\ Cardinality(CompleteCalls(registered[i].event)) >= 2

\* C5: every callback of an event completed with complete(r) is invoked
\* with r, whether it was registered before or after the completion.
EventCallbackResult ==
  \A k \in DOMAIN executed :
    \A i \in DOMAIN registered :
      registered[i].f = executed[k].f =>
        \A c \in CompleteCalls(registered[i].event) :
          completeLog[c].ret => executed[k].r = completeLog[c].result

\* the Arc<WorkerPoolInner> was dropped: no handle is left
PoolDropped == StrongCount(pool_handles, live) = 0

\* the Close sentinels that were pushed: still queued, or popped by a
\* worker thread that left its loop
Closes ==
  Cardinality({i \in DOMAIN queue : queue[i] = Close}) + Cardinality(exited)

\* C17: when the last handle to the pool is dropped exactly NumWorkers
\* Close sentinels are pushed, none before, each worker thread leaves its
\* loop on the first Close it pops, and so all worker threads eventually
\* terminate.
PoolShutdown ==
  /\ [](Closes = (IF PoolDropped THEN NumWorkers ELSE 0))
  /\ [](\A w \in exited : running[w] = NoItem)
  /\ (PoolDropped ~> (exited = Workers /\ queue = <<>>))

\* every worker thread has left its loop after the thunks that were
\* queued before the sentinels were invoked, the last handle having been
\* that of an event
PoolShutdownWitness ==
  /\ PoolDropped /\ exited = Workers
  /\ Len(executed) = MaxSpawns
  /\ current_event_id >= 1

\* the thunk passed to the k-th spawn_box_fn call of the program
Thunk(k) == 0 - k

\* C25: every thunk passed to spawn_box_fn is queued, held by one worker
\* or invoked, never lost and never duplicated; it is invoked at most
\* once, with the result passed to spawn_box_fn; no Run item is ever
\* queued behind a Close; and every spawned thunk is eventually invoked,
\* also when the pool is shut down.
SpawnRunsOnce ==
  /\ [](\A k \in 1..spawns :
          /\ Enqueued(Thunk(k)) = 1
          /\ \A i \in DOMAIN executed :
               executed[i].f = Thunk(k) => executed[i].r = spawned[k])
  /\ [](\A i, j \in DOMAIN queue :
          (i < j /\ queue[i] = Close) => queue[j] = Close)
  /\ \A k \in 1..MaxSpawns :
       (spawns >= k) ~> (\E i \in DOMAIN executed : executed[i].f = Thunk(k))

\* the pool was shut down and every worker thread left; before that two
\* thunks spawned with different results were invoked by different
\* workers
SpawnRunsOnceWitness ==
  /\ PoolDropped /\ exited = Workers /\ queue = <<>>
  /\ Len(executed) = spawns
  /\ \E i, j \in DOMAIN executed :
       /\ executed[i].worker /= executed[j].worker
       /\ executed[i].r /= executed[j].r

\* C18: the ids returned by create_event() are pairwise distinct and are
\* assigned in increasing order from 0, and every new event is not
\* completed and has no callback.
EventIdsUnique ==
  /\ \A i \in DOMAIN created :
       /\ created[i].id = i - 1
       /\ ~created[i].completed
       /\ created[i].callbacks = <<>>
  /\ \A i, j \in DOMAIN created : i /= j => created[i].id /= created[j].id
  /\ Len(created) = current_event_id

\* MaxEvents events were created: the first was given a callback and
\* completed, the last is as create_event built it
EventIdsUniqueWitness ==
  /\ Len(created) = MaxEvents
  /\ completed[0] /\ ~completed[MaxEvents - 1]
  /\ \E i \in DOMAIN registered : registered[i].event = 0 /\ ~registered[i].late
  /\ callbacks[MaxEvents - 1] = <<>>

(***************************************************************************)
(* Properties of the buffer                                                *)
(***************************************************************************)

\* the last buffer operation was `name` and its future has resolved
Resolved(name) == bop.name = name /\ bop.phase = "resolved"

BufferInvariants ==
  (~cancelled /\ bop.phase \in {"none", "resolved"}) =>
    /\ latest_device \in DOMAIN copies
    /\ \A d \in DOMAIN copies : Len(copies[d]) = size * ElemBytes

\* C8: after sync(target) has resolved successfully on a buffer that held
\* its latest copy, target is a key of copies and latest_device is target.
SyncReachesTarget ==
  (/\ Resolved("sync") /\ bop.ok
   /\ bop.beforeLatest \in DOMAIN bop.beforeCopies) =>
    bop.dev \in DOMAIN copies /\ latest_device = bop.dev

\* C9: when the future of sync_from_vec or sync_to_vec has resolved with
\* an error, copies and latest_device are what they were before the call.
FailedOpKeepsState ==
  ((Resolved("sync_from_vec") \/ Resolved("sync_to_vec")) /\ ~bop.ok) =>
    copies = bop.beforeCopies /\ latest_device = bop.beforeLatest

\* C10: sync(d) with d = latest_device, however often it is repeated,
\* resolves at once, allocates and copies nothing, and leaves copies and
\* latest_device as they were.
SyncIdempotent ==
  (Resolved("sync") /\ bop.dev = bop.beforeLatest) =>
    /\ bop.ok
    /\ bop.allocs = 0 /\ bop.transfers = 0
    /\ copies = bop.beforeCopies
    /\ latest_device = bop.beforeLatest

\* sync(latest_device) was called twice in a row on a buffer that holds
\* its latest copy
SyncIdempotentWitness ==
  /\ Resolved("sync") /\ bop.reps = 2 /\ bop.dev = latest_device
  /\ latest_device \in DOMAIN copies
  /\ size >= 1

\* C26: when the future of sync_to_vec has resolved successfully the key
\* set of copies, latest_device and size are what they were before the
\* call, and the copy is back under the device key it was taken from.
SyncToVecKeepsBookkeeping ==
  (Resolved("sync_to_vec") /\ bop.ok) =>
    /\ DOMAIN copies = DOMAIN bop.beforeCopies
    /\ latest_device = bop.beforeLatest
    /\ size = bop.beforeSize
    /\ bop.dev = bop.beforeLatest
    /\ bop.dev \in DOMAIN copies

\* sync_to_vec has read a buffer of MaxLen elements that no sync_from_vec
\* had written just before
SyncToVecKeepsBookkeepingWitness ==
  /\ Resolved("sync_to_vec") /\ bop.ok
  /\ ~bop.written.set
  /\ size = MaxLen /\ Len(bop.vec) = MaxLen
  /\ latest_device \in DOMAIN copies

\* the guard of task t is released in this step: the vault is unlocked, t
\* holds nothing, and the waiter pushed last, if there is one, is removed
\* from the list and woken while every other task is left alone
GuardReleased(t) ==
  /\ ~locked'
  /\ pc'[t] = "idle"
  /\ waiting /= <<>> =>
       /\ waiting' = SubSeq(waiting, 1, Len(waiting) - 1)
       /\ pc[waiting[Len(waiting)]] = "parked" =>
            pc'[waiting[Len(waiting)]] = "woken"
       /\ \A u \in Tasks \ {t, waiting[Len(waiting)]} : pc'[u] = pc[u]
  /\ waiting = <<>> =>
       /\ waiting' = <<>>
       /\ \A u \in Tasks \ {t} : pc'[u] = pc[u]

\* the guard of task t survives this step: the vault is locked before and
\* after it, t holds the LockedBuffer, and no waiter is removed or woken
GuardKept(t) ==
  /\ locked /\ locked'
  /\ pc'[t] = "holding"
  /\ waiting' = waiting
  /\ \A u \in Tasks \ {t} : pc'[u] = pc[u]

\* C28: the step that resolves the future of sync_to_vec, with a vector or
\* with an error, releases the guard that the call consumed; the step that
\* resolves the future of sync_from_vec successfully, and a call of sync,
\* keep the guard, and from then on the vault is locked for as long as the
\* task holds the LockedBuffer it was given.
GuardLifetime ==
  [][/\ \A t \in BufTasks : pc'[t] = "holding" => locked'
     /\ bop' /= bop =>
          LET t == bop'.task IN
            /\ (bop'.name = "sync_to_vec" /\ bop'.phase = "resolved"
                  /\ (ResolveSyncToVec(t) \/ SyncToVec(t))) =>
                 GuardReleased(t)
            /\ (bop'.name = "sync_from_vec" /\ bop'.phase = "resolved"
                  /\ bop'.ok /\ ResolveSyncFromVec(t)) => GuardKept(t)
            /\ (bop'.name = "sync" /\ \E d \in Devices : Sync(t, d)) =>
                 GuardKept(t)]_vars

\* sync_to_vec has resolved successfully while another task was parked:
\* the vault is unlocked and that task is woken; before it, the same task
\* had been given the LockedBuffer back by a successful sync_from_vec
GuardLifetimeWitness ==
  /\ Resolved("sync_to_vec") /\ bop.ok /\ bop.written.set
  /\ bop.written.by = bop.task
  /\ ~locked
  /\ pc[bop.task] = "idle"
  /\ \E u \in BufTasks \ {bop.task} : pc[u] = "woken"

\* C29: whenever the vault is unlocked, latest_device is a key of copies.
LatestCopyWhenUnlocked == ~locked => latest_device \in DOMAIN copies

GuardIffLocked ==
  [][/\ Cardinality(Guards) = (IF locked THEN 1 ELSE 0)
     /\ Cardinality(Guards') = (IF locked' THEN 1 ELSE 0)
     /\ \A t \in Tasks :
          /\ ((pc[t] = "holding" /\ pc'[t] = "idle") => locked)
          /\ (lastAcq'.op = "into" /\ IntoVault(t)) =>
               /\ locked /\ ~locked'
               /\ handle'[t] = TheInner
               /\ Guards' = {}]_vars

\* a guard was converted into a Vault while another task was parked: the
\* vault is unlocked, no guard is left, every task holds a handle of the
\* Inner and the other task is woken
GuardIffLockedWitness ==
  /\ lastAcq.op = "into" /\ lastAcq.guard /\ lastAcq.locked
  /\ ~locked /\ Guards = {}
  /\ \A t \in Tasks : handle[t] = TheInner
  /\ \E u \in Tasks : pc[u] = "woken"

\* the event spin locks that thread th holds
EvLocksHeld(th) == {l \in spin[th].held : l[1] = "event"}

\* C31: complete() and callback() never invoke a thunk while the event's
\* spin lock is held: a thread that holds an event lock is in the body of
\* one of the two and only pushes on the queue; every thunk is invoked by
\* a worker thread that holds no spin lock at that moment.  No thread
\* holds the vault's spin lock and an event's spin lock together, none
\* spins on a lock it holds, and no thread spins for ever: the calls
\* being finitely many, from some moment on no thread waits for a lock, a
\* thunk that calls complete() or callback() on its own event included.
SpinDiscipline ==
  /\ [](\A th \in Threads :
          /\ spin[th].inline = <<>> /\ spin[th].op /= "inline"
          /\ EvLocksHeld(th) /= {} =>
               /\ spin[th].op \in {"complete", "callback"}
               /\ spin[th].held = {spin[th].lock}
          /\ ~(VaultSpin \in spin[th].held /\ EvLocksHeld(th) /= {})
          /\ spin[th].want \notin spin[th].held)
  /\ [](\A i \in DOMAIN executed : executed[i].worker \in Workers)
  /\ [][\A th \in Threads : ThunkStep(th) => spin[th].held = {}]_vars
  /\ <>[](\A th \in Threads : spin[th].want = NoLock)

\* a thunk that calls callback() on its own event was invoked by a worker
\* after the event completed: the thunk it registered was spawned at once
\* and has run too, and every thread is out of its calls
SpinDisciplineWitness ==
  /\ Len(registered) = 2 /\ Len(executed) = 2
  /\ registered[1].kind = "callback"
  /\ registered[2].late /\ registered[2].event = registered[1].event
  /\ \E i \in DOMAIN executed : executed[i].f = 1
  /\ \A th \in Threads : spin[th] = IdleThread

\* C19: native_memory(d) and native_memory_mut(d) return the copy stored
\* under d exactly when d is a key of copies and fail with InvalidDevice
\* otherwise; copies and latest_device are as before the call, and so is
\* size.
NativeMemoryContract ==
  (Resolved("native_memory") \/ Resolved("native_memory_mut")) =>
    /\ bop.ok <=> bop.dev \in DOMAIN bop.beforeCopies
    /\ bop.ok => bop.mem = bop.beforeCopies[bop.dev]
    /\ ~bop.ok => bop.err = "InvalidDevice"
    /\ copies = bop.beforeCopies
    /\ latest_device = bop.beforeLatest
    /\ size = bop.beforeSize

\* native_memory_mut was refused on a device without a copy while the
\* home device holds a copy of MaxLen elements
NativeMemoryContractWitness ==
  /\ Resolved("native_memory_mut") /\ ~bop.ok
  /\ bop.dev /= HomeDevice
  /\ HomeDevice \in DOMAIN copies
  /\ size = MaxLen

(***************************************************************************)
(* Properties of the kernel                                                *)
(***************************************************************************)

\* the slice that pipeline p finds in the buffer it passes as argument k
ArgSlice(p, k) == KernelView(kbufs[BufOf(p, k)].raw).slice

\* pipeline p runs the repository's dot test: A and B and their shapes,
\* and output buffers of the sizes the test allocates
RunsDotTest(p) ==
  /\ ArgSlice(p, 1) = DotTest.shape_a /\ ArgSlice(p, 2) = DotTest.a
  /\ ArgSlice(p, 3) = DotTest.shape_b /\ ArgSlice(p, 4) = DotTest.b
  /\ kbufs[BufOf(p, 5)].raw.size = DotTest.nshape_c
  /\ kbufs[BufOf(p, 6)].raw.size = DotTest.nc

\* C11: while a pipeline owns the guard of a buffer no other pipeline owns
\* a guard of that buffer and no other pipeline that was passed that
\* buffer has its kernel queued or computing; and a pipeline only ever
\* waits for a buffer that another pipeline uses, so pipelines on
\* disjoint buffers compute side by side.
KernelSerialized ==
  /\ \A p, q \in Pipes :
       p /= q =>
         \A k \in kheld[p], j \in Args :
           BufOf(p, k) = BufOf(q, j) =>
             j \notin kheld[q] /\ kpc[q] \notin {"queued", "computing"}
  /\ \A p \in Pipes :
       kpc[p] = "parked" =>
         \E q \in Pipes \ {p}, j \in Args : BufOf(q, j) = BufOf(p, NextArg(p))
  /\ \A p, q \in Pipes :
       (p /= q /\ kpc[p] = "computing" /\ kpc[q] = "computing") =>
         \A k, j \in Args : BufOf(p, k) /= BufOf(q, j)

\* a pipeline that shares the buffers of A with the first has its kernel
\* computing after the first dropped its guards, having waited for them
KernelSerializedWitness ==
  \E p, q \in Pipes :
    /\ p /= q /\ BufOf(p, 2) = BufOf(q, 2)
    /\ kpc[p] = "done" /\ kout[p].ok
    /\ kpc[q] = "computing"
    /\ kbufs[BufOf(q, 2)].raw.size = 4

\* C12: from the call of bcast_dot until its future resolves the pipeline
\* owns the six guards and the six vaults stay locked, no step in between
\* releasing one; on success the item is the six buffers that were
\* passed, in the order shape_a, a, shape_b, b, shape_c, c.
KernelKeepsGuards ==
  /\ [](\A p \in Pipes :
          /\ kpc[p] \in {"queued", "computing"} =>
               /\ kheld[p] = Args
               /\ \A k \in Args : kbufs[BufOf(p, k)].locked
          /\ kout[p].ok => kout[p].item = [k \in Args |-> BufOf(p, k)])
  /\ [][\A p \in Pipes :
          (/\ kpc[p] \in {"locked", "queued", "computing"}
           /\ kpc'[p] \in {"queued", "computing", "resolved"}) =>
            /\ kheld'[p] = Args
            /\ \A k \in Args : kbufs'[BufOf(p, k)].locked]_vars

\* the future resolved with the six buffers, no guard dropped yet, while
\* another pipeline is parked on one of them
KernelKeepsGuardsWitness ==
  \E p, q \in Pipes :
    /\ kpc[p] = "resolved" /\ kout[p].ok /\ kheld[p] = Args
    /\ Len(kout[p].item) = 6
    /\ kpc[q] = "parked"
    /\ \E k \in Args : BufOf(p, k) = BufOf(q, NextArg(q))

\* C20: the preallocated-output bcast_dot on the repository's dot test, A
\* of shape [1,4] = [1,2,3,4] and B of shape [1,4] = [2,2,2,2] with the
\* output buffers the test allocates, succeeds and leaves the shape [1] in
\* shape_c and the value [20] in c.
DotTestResult ==
  \A p \in Pipes :
    (RunsDotTest(p) /\ kpc[p] \in {"resolved", "failed"}) =>
      /\ kout[p].ok
      /\ ArgSlice(p, 5) = <<1>>
      /\ ArgSlice(p, 6) = <<20>>

\* the broadcast of the inputs that pipeline p passes
ArgBroadcast(p) ==
  TryNewBroadcast(ArgSlice(p, 1), ArgSlice(p, 2), ArgSlice(p, 3),
                  ArgSlice(p, 4))

\* C21: when the allocating bcast_dot resolves successfully the data
\* buffer it made has as many elements as the product of the leading
\* dimensions of the result, the broadcast shape without its trailing
\* dimension.
AllocCount ==
  \A p \in Pipes :
    (kalloc[p] /\ kpc[p] = "resolved" /\ kout[p].ok) =>
      kbufs[BufOf(p, 6)].raw.size = Prod(Lead(ArgBroadcast(p).shape))

\* C23: dropping a guard clears the locked flag; if the waiting list is
\* not empty exactly its tail, the entry pushed last, is removed and that
\* task is woken, every other entry stays and no other task is woken; if
\* the list is empty no task is woken.
DropWakesTail ==
  [][\A t \in Tasks :
       DropGuard(t) =>
         /\ ~locked'
         /\ waiting /= <<>> =>
              /\ waiting' = SubSeq(waiting, 1, Len(waiting) - 1)
              /\ pc[waiting[Len(waiting)]] = "parked" =>
                   pc'[waiting[Len(waiting)]] = "woken"
              /\ \A u \in Tasks \ {t, waiting[Len(waiting)]} : pc'[u] = pc[u]
         /\ waiting = <<>> =>
              /\ waiting' = <<>>
              /\ \A u \in Tasks \ {t} : pc'[u] = pc[u]]_vars

\* a guard was dropped with two tasks parked: the one parked last is
\* woken, the other is still parked and still in the list
DropWakesTailWitness ==
  \E u, v \in Tasks :
    /\ u /= v
    /\ ~locked
    /\ pc[v] = "woken" /\ pc[u] = "parked"
    /\ waiting = <<u>>

\* the thunks registered on event e before it was completed, in the
\* order of their registration
EarlyCallbacks(e) ==
  LET sel == SelectSeq(registered, LAMBDA c : c.event = e /\ ~c.late) IN
    [i \in 1..Len(sel) |-> sel[i].f]

\* C24: the complete() call that completes an event pushes the callbacks
\* registered before it on the tail of the pool's queue, one Run item
\* each, in the order of their registration; with a single worker thread
\* these callbacks are invoked in the order of their registration.
CallbackOrder ==
  /\ [][\A e \in Events, result \in Results :
          (Complete(e, result) /\ ~completed[e]) =>
            /\ queue' = queue \o [i \in 1..Len(EarlyCallbacks(e)) |->
                                    Run(EarlyCallbacks(e)[i], result)]
            /\ callbacks'[e] = <<>>]_vars
  /\ [](\A i, j \in DOMAIN executed :
          \A a, b \in DOMAIN registered :
            (/\ executed[i].f = registered[a].f
             /\ executed[j].f = registered[b].f
             /\ registered[a].event = registered[b].event
             /\ ~registered[a].late /\ ~registered[b].late
             /\ a < b) => i < j)

\* two callbacks registered on one event before its completion were both
\* invoked by the single worker
CallbackOrderWitness ==
  \E a, b \in DOMAIN registered :
    /\ a < b
    /\ registered[a].event = registered[b].event
    /\ ~registered[a].late /\ ~registered[b].late
    /\ \E i, j \in DOMAIN executed :
         executed[i].f = registered[a].f /\ executed[j].f = registered[b].f

(***************************************************************************)
(* Properties of the context                                               *)
(***************************************************************************)

\* C22: after set_input(uid, buf), Socket::exec at index 0 on an
\* executable with that uid, by a socket of the buffer's element type,
\* returns the shared future of buf and does not invoke the executable's
\* exec; Socket::exec on a Placeholder for which no input was set fails
\* with PlaceholderError and leaves the cache as it was.
InputBinding ==
  [][\A n \in Nodes, index \in Indexes, ty \in Types :
       (/\ lastExec'.node = n /\ lastExec'.index = index /\ lastExec'.ty = ty
        /\ SocketExec(n, index, ty)) =>
         /\ (bound[n] /= NoOutput /\ index = 0 /\ bound[n].ty = ty) =>
              /\ lastExec'.ok
              /\ lastExec'.item = bound[n]
              /\ execs' = execs
         /\ (bound[n] = NoOutput /\ nodes[n].kind = "Placeholder") =>
              /\ ~lastExec'.ok
              /\ lastExec'.err = "PlaceholderError"
              /\ cache' = cache]_vars

\* a socket was handed the input set for a Placeholder whose exec never
\* ran, and the exec of another Placeholder, without input, has failed
InputBindingWitness ==
  \E n \in Nodes, m \in Nodes :
    /\ nodes[n].kind = "Placeholder" /\ nodes[m].kind = "Placeholder"
    /\ lastExec.node = n /\ lastExec.ok /\ lastExec.item.src = "input"
    /\ execs[n] = 0
    /\ bound[m] = NoOutput /\ execs[m] > 0 /\ m \notin DOMAIN cache

\* C27: over the calls of Socket::exec on one context, an executable
\* whose exec succeeded is not executed again and later calls are handed
\* the outputs of that one execution; a call whose exec fails puts no
\* entry for the executable into the cache and changes no entry; a call
\* for an index beyond the cached outputs fails with NoSuchElement.
ContextCaching ==
  /\ [](\A n \in Nodes : nodes[n].kind = "Source" => execs[n] <= 1)
  /\ [][\A n \in Nodes, index \in Indexes, ty \in Types :
          (/\ lastExec'.node = n /\ lastExec'.index = index
           /\ lastExec'.ty = ty
           /\ SocketExec(n, index, ty)) =>
            /\ (/\ nodes[n].kind = "Source" /\ bound[n] = NoOutput
                /\ index < Len(nodes[n].outs)
                /\ nodes[n].outs[index + 1] = ty) =>
                 /\ lastExec'.ok
                 /\ lastExec'.item = ExecItem(nodes, n, index, 1)
                 /\ execs[n] = 1 => execs' = execs
            /\ (n \notin DOMAIN cache /\ nodes[n].kind /= "Source") =>
                 /\ ~lastExec'.ok
                 /\ execs'[n] = execs[n] + 1
                 /\ n \notin DOMAIN cache'
                 /\ \A u \in DOMAIN cache : cache'[u] = cache[u]
                 /\ nodes[n].kind = "Placeholder" => cache' = cache
            /\ (n \in DOMAIN cache' /\ index >= Len(cache'[n])) =>
                 /\ ~lastExec'.ok
                 /\ lastExec'.err = "NoSuchElement"]_vars

\* an executable that succeeded once was asked again, for an index beyond
\* its outputs, after a Dot over it had asked for it twice and failed:
\* its exec ran once and the Dot has no entry in the cache
ContextCachingWitness ==
  \E n \in Nodes, d \in Nodes :
    /\ nodes[n].kind = "Source" /\ bound[n] = NoOutput
    /\ nodes[d].kind = "Dot" /\ nodes[d].a = n /\ nodes[d].b = n
    /\ execs[d] > 0 /\ d \notin DOMAIN cache
    /\ execs[n] = 1 /\ n \in DOMAIN cache
    /\ lastExec.node = n /\ lastExec.index >= Len(cache[n])
    /\ lastExec.err = "NoSuchElement"

====
